---- MODULE Spec2Model ----
(***************************************************************************)
(* ProcVis: an 8-bit bus-oriented processor simulator.  The model follows  *)
(* the final iteration of the kernel (src/unnamed/part_002, lines 724 to   *)
(* 1539: RamWord, ReadOnlyBus, Bus, Register, ArithmeticLogicUnit, RAM,    *)
(* Decoder and the assembler) and its host, class Simulation, in           *)
(* src/sim_ui.ts.                                                          *)
(***************************************************************************)
EXTENDS Integers, Sequences, FiniteSets, TLC

VARIABLES
    numValue,            \* numValue of every bus, register and of the ALU (its flags)
    dirty,               \* dirty bit of every bus, register and of the ALU
    data,                \* RAM.data: numValue of the RamWord at each address
    textValue,           \* RAM.data: the addresses whose RamWord has a textValue (not null)
    currentInstruction,  \* Decoder.currentInstruction: name of the micro-step run next
    thrown,              \* the last update_state() call raised a TypeError
    warned,              \* a Bus.setValue of the last update_state() found its bus dirty
    truncated,           \* the buses a setValue of the last update_state() cut bits from (observer only)
    cycles,              \* number of update_state() calls since the program was loaded
    hist,                \* history of the run (observer only, never read by the machine)
    host,                \* the last call of the host and what it did to memory (observer only)
    busSize,             \* a stand-alone Bus: its size (after the clamp)
    busNum,              \* a stand-alone Bus: its numValue
    busDirty,            \* a stand-alone Bus: its dirty bit
    busArg,              \* a stand-alone Bus: the argument of the setValue that stored numValue
    busLog,              \* a stand-alone Bus: setValue calls and warnings since clean(), reset()
    aluCase,             \* a stand-alone ALU evaluation: inputs and outputs
    asm,                 \* a stand-alone assembleInstruction call: the line and the words
    regCase,             \* a stand-alone register cycle: the controls and the values
    _state,              \* Simulation._state: the run mode that drives the clock, or "null"
    _stop,               \* Simulation._stop
    calls                \* the onButtonPress calls: button, currentState and where each stands

mvars == <<numValue, dirty, data, textValue, currentInstruction, thrown, warned, truncated,
           cycles, hist, host>>
bvars == <<busSize, busNum, busDirty, busArg, busLog>>
vars == <<numValue, dirty, data, textValue, currentInstruction, thrown, warned, truncated,
          cycles, hist, host,
          busSize, busNum, busDirty, busArg, busLog, aluCase, asm, regCase,
          _state, _stop, calls>>
uvars == <<_state, _stop, calls>>

----------------------------------------------------------------------------
(* Program constants *)

WORD_SIZE == 8
CTRL_SIZE_SET == 1
CTRL_SIZE_SET_ENB == 2
CTRL_SIZE_SET_ENB_INC == 3
ALU_CTRL_SIZE == 3
FLAGS_SIZE == 4
MAX_BUS_SIZE == 31

CTRL_SET == 1
CTRL_ENB == 2
CTRL_INC == 4

ALU_ADD == 1
ALU_SUB == 2
ALU_AND == 3
ALU_OR == 4
ALU_XOR == 5
ALU_NOT == 6

FLGS_Z == 2
FLGS_S == 1

RAM_READ == 1
RAM_WRITE == 2

INS_RAM == 0
INS_B_RAM_READ == 1
INS_B_RAM_WRITE == 4
INS_ALU_R == 1
INS_ALU_I == 3
INS_JMP == 2
INS_JMP_JMP == 0
INS_JMP_JLZ == 1
INS_JMP_JGZ == 2
INS_JMP_JEZ == 3

----------------------------------------------------------------------------
(* JavaScript integer operators on the ranges the program uses *)

RECURSIVE Power2(_)
Power2(n) == IF n = 0 THEN 1 ELSE 2 * Power2(n - 1)

\* 1 << n for n in 0..30, tabulated once
Pow2Table == [n \in 0..30 |-> Power2(n)]

Pow2(n) == Pow2Table[n]

\* 1 << WORD_SIZE
WordLimit == Pow2(WORD_SIZE)

\* v & ((1 << n) - 1): the low n bits of v in two's complement, also for negative v
LowBits(v, n) == v % Pow2(n)

\* (v >> n) & 1 for v >= 0
Bit(v, n) == (v \div Pow2(n)) % 2

\* a & b, a | b, a ^ b on WORD_SIZE-bit operands, bit by bit
RECURSIVE BitAnd(_, _, _)
BitAnd(a, b, n) ==
    IF n = 0 THEN 0
    ELSE (IF a % 2 = 1 /\ b % 2 = 1 THEN 1 ELSE 0) + 2 * BitAnd(a \div 2, b \div 2, n - 1)

RECURSIVE BitOr(_, _, _)
BitOr(a, b, n) ==
    IF n = 0 THEN 0
    ELSE (IF a % 2 = 1 \/ b % 2 = 1 THEN 1 ELSE 0) + 2 * BitOr(a \div 2, b \div 2, n - 1)

RECURSIVE BitXor(_, _, _)
BitXor(a, b, n) ==
    IF n = 0 THEN 0
    ELSE (IF a % 2 # b % 2 THEN 1 ELSE 0) + 2 * BitXor(a \div 2, b \div 2, n - 1)

----------------------------------------------------------------------------
(* The buses of class Simulation *)

Registers == <<"regIns", "regPC", "regA", "regB", "regT1", "regT2", "regAddress">>

RegisterNames == {Registers[i] : i \in 1..Len(Registers)}

ControlNames == {"ctrlIns", "ctrlPC", "ctrlA", "ctrlB", "ctrlT1", "ctrlT2",
                 "ctrlAddress", "ctrlALU", "ctrlRam"}

Busses == RegisterNames \cup ControlNames \cup {"alu", "dataBus"}

\* the size every bus is constructed with
SizeOf(name) ==
    CASE name = "ctrlIns" -> CTRL_SIZE_SET
      [] name = "ctrlPC" -> CTRL_SIZE_SET_ENB_INC
      [] name = "ctrlAddress" -> CTRL_SIZE_SET
      [] name = "ctrlRam" -> CTRL_SIZE_SET_ENB
      [] name = "ctrlA" -> CTRL_SIZE_SET_ENB
      [] name = "ctrlB" -> CTRL_SIZE_SET_ENB
      [] name = "ctrlT1" -> CTRL_SIZE_SET
      [] name = "ctrlT2" -> CTRL_SIZE_SET
      [] name = "ctrlALU" -> ALU_CTRL_SIZE
      [] name = "alu" -> FLAGS_SIZE
      [] OTHER -> WORD_SIZE

\* the control bus a register is constructed with
ControlOf(r) ==
    CASE r = "regIns" -> "ctrlIns"
      [] r = "regPC" -> "ctrlPC"
      [] r = "regA" -> "ctrlA"
      [] r = "regB" -> "ctrlB"
      [] r = "regT1" -> "ctrlT1"
      [] r = "regT2" -> "ctrlT2"
      [] r = "regAddress" -> "ctrlAddress"

----------------------------------------------------------------------------
(* RamWord, ReadOnlyBus, Bus.  A machine state s is a record with the      *)
(* fields numValue, dirty, data, textValue, currentInstruction, thrown,    *)
(* warned and truncated.                                                   *)

\* the value assembleInstruction returns in place of a word when nothing matched
null == 0 - 1000000

\* RamWord.getValue: numValue & ((1 << WORD_SIZE) - 1), whatever the bus size
RamWord_getValue(n) == LowBits(n, WORD_SIZE)

\* RamWord.setValue: numValue & ((1 << WORD_SIZE) - 1)
RamWord_setValue(n) == LowBits(n, WORD_SIZE)

\* ReadOnlyBus constructor: the size clamp and maxValue's low bits
ReadOnlyBus_size(size) == IF size > MAX_BUS_SIZE THEN MAX_BUS_SIZE ELSE size

\* Bus.setValue on a bus of the given size: the value stored (value & maxValue)
Bus_stored(size, value) == LowBits(value, size)

\* Bus.setValue without the isDirty() test: contention is never reported
Bus_warnings_silent(isDirty) == 0

\* Bus.setValue: the console.warn calls of one setValue of an integer, "Bus
\* already modified this phase!" when the bus is dirty (the masked value is an
\* integer not above maxValue, so the other two warnings stay silent)
Bus_warnings(isDirty) == IF isDirty THEN 1 ELSE 0

getValue(s, name) == RamWord_getValue(s.numValue[name])

\* Bus.setValue on a bus of the machine: "Bus already modified this phase!" is
\* reported when the bus is dirty; "value & this.maxValue" comes first and
\* reports nothing when it cuts bits from the value
Bus_setValue(s, name, value) ==
    [s EXCEPT !.numValue[name] = Bus_stored(ReadOnlyBus_size(SizeOf(name)), value),
              !.dirty[name] = TRUE,
              !.warned = @ \/ Bus_warnings(s.dirty[name]) > 0,
              !.truncated = IF value = Bus_stored(ReadOnlyBus_size(SizeOf(name)), value)
                            THEN @ ELSE @ \cup {name}]

ReadOnlyBus_clean(s, name) == [s EXCEPT !.dirty[name] = FALSE]

ReadOnlyBus_reset(s, name) == [s EXCEPT !.numValue[name] = 0]

----------------------------------------------------------------------------
(* Register *)

Register_update_enable(s, r) ==
    IF Bit(getValue(s, ControlOf(r)), 1) = 1
    THEN Bus_setValue(s, "dataBus", s.numValue[r])
    ELSE s

\* the register's own maxValue is (1 << WORD_SIZE) - 1
Register_increment(n) == LowBits(n + 1, WORD_SIZE)

\* Register.update_set without the dirty test: a register counts in both set
\* passes of a cycle
Register_update_set_recount(s, r) ==
    LET ctrl == getValue(s, ControlOf(r)) IN
    IF Bit(ctrl, 0) = 1
    THEN [s EXCEPT !.numValue[r] = getValue(s, "dataBus"), !.dirty[r] = TRUE]
    ELSE IF Bit(ctrl, 2) = 1
    THEN [s EXCEPT !.numValue[r] = Register_increment(s.numValue[r]), !.dirty[r] = TRUE]
    ELSE s

\* Register.update_set testing CTRL_INC ahead of CTRL_SET: a register with both
\* asserted counts and does not latch
Register_update_set_counts(s, r) ==
    LET ctrl == getValue(s, ControlOf(r)) IN
    IF Bit(ctrl, 2) = 1
    THEN IF s.dirty[r] THEN s
         ELSE [s EXCEPT !.numValue[r] = Register_increment(s.numValue[r]), !.dirty[r] = TRUE]
    ELSE IF Bit(ctrl, 0) = 1
    THEN [s EXCEPT !.numValue[r] = getValue(s, "dataBus"), !.dirty[r] = TRUE]
    ELSE s

Register_update_set(s, r) ==
    LET ctrl == getValue(s, ControlOf(r)) IN
    IF Bit(ctrl, 0) = 1
    THEN [s EXCEPT !.numValue[r] = getValue(s, "dataBus"), !.dirty[r] = TRUE]
    ELSE IF Bit(ctrl, 2) = 1 /\ ~s.dirty[r]
    THEN [s EXCEPT !.numValue[r] = Register_increment(s.numValue[r]), !.dirty[r] = TRUE]
    ELSE s

\* this.registers.forEach(r => r.update_enable()): every enabled register writes
\* the data bus in the order of the list, so the last enabled one is left on it,
\* and every one after the first finds the bus dirty
forEach_update_enable(s) ==
    LET enabled == {i \in 1..Len(Registers) :
                        Bit(getValue(s, ControlOf(Registers[i])), 1) = 1}
        last == CHOOSE i \in enabled : \A j \in enabled : j <= i
    IN IF enabled = {} THEN s
       ELSE [Register_update_enable(s, Registers[last]) EXCEPT
                !.warned = @ \/ Cardinality(enabled) > 1]

\* this.registers.forEach(r => r.update_set()): update_set reads the data bus
\* and writes the register alone, so the order of the list does not matter
forEach_update_set(s) ==
    LET after(r) == Register_update_set(s, r) IN
    [s EXCEPT !.numValue = [n \in Busses |->
                  IF n \in RegisterNames THEN after(n).numValue[n] ELSE s.numValue[n]],
              !.dirty = [n \in Busses |->
                  IF n \in RegisterNames THEN after(n).dirty[n] ELSE s.dirty[n]]]

----------------------------------------------------------------------------
(* ArithmeticLogicUnit *)

\* the switch of update(): the raw result of op on a and b
ALU_raw(op, a, b) ==
    CASE op % 8 = ALU_ADD -> a + b
      [] op % 8 = ALU_SUB -> a - b
      [] op % 8 = ALU_AND -> BitAnd(a, b, WORD_SIZE)
      [] op % 8 = ALU_OR -> BitOr(a, b, WORD_SIZE)
      [] op % 8 = ALU_XOR -> BitXor(a, b, WORD_SIZE)
      [] op % 8 = ALU_NOT -> LowBits(-a - 1, WORD_SIZE)
      [] OTHER -> 0

\* the result without "res &= (1 << WORD_SIZE) - 1": the flags see the carry
ALU_res_untruncated(op, a, b) == ALU_raw(op, a, b)

\* res &= (1 << WORD_SIZE) - 1
ALU_res(op, a, b) == LowBits(ALU_raw(op, a, b), WORD_SIZE)

\* the flags with the zero test made on the result without its sign bit
ALU_flgs_magnitude(res) ==
    (IF res \div Pow2(WORD_SIZE - 1) # 0 THEN FLGS_S ELSE 0)
    + (IF res % Pow2(WORD_SIZE - 1) = 0 THEN FLGS_Z ELSE 0)

\* the flags update() computes from the truncated result
ALU_flgs(res) ==
    (IF res \div Pow2(WORD_SIZE - 1) # 0 THEN FLGS_S ELSE 0)
    + (IF res = 0 THEN FLGS_Z ELSE 0)

\* update() without the "control not set" return: the flags are computed in
\* every cycle
ALU_update_always(s) ==
    LET op == getValue(s, "ctrlALU")
        a == LowBits(getValue(s, "regT1"), WORD_SIZE)
        b == LowBits(getValue(s, "regT2"), WORD_SIZE)
        res == ALU_res(op, a, b)
        s1 == Bus_setValue(s, "dataBus", res)
    IN [s1 EXCEPT !.numValue["alu"] = ALU_flgs(res), !.dirty["alu"] = TRUE]

ALU_update(s) ==
    LET op == getValue(s, "ctrlALU")
        a == LowBits(getValue(s, "regT1"), WORD_SIZE)
        b == LowBits(getValue(s, "regT2"), WORD_SIZE)
        res == ALU_res(op, a, b)
        s1 == Bus_setValue(s, "dataBus", res)
    IN IF op = 0 THEN s
       ELSE [s1 EXCEPT !.numValue["alu"] = ALU_flgs(res), !.dirty["alu"] = TRUE]

----------------------------------------------------------------------------
(* RAM *)

\* RAM.update with a setValue that keeps the word's textValue
RAM_update_text(s) ==
    LET address == LowBits(getValue(s, "regAddress"), WORD_SIZE)
        ctl == getValue(s, "ctrlRam")
    IN CASE ctl \in {CTRL_ENB, CTRL_SET} /\ s.data[address] = null ->
              [s EXCEPT !.thrown = TRUE]
         [] ctl = CTRL_ENB ->
              Bus_setValue(s, "dataBus", LowBits(RamWord_getValue(s.data[address]), WORD_SIZE))
         [] ctl = CTRL_SET ->
              [s EXCEPT !.data[address] =
                   RamWord_setValue(LowBits(getValue(s, "dataBus"), WORD_SIZE))]
         [] OTHER -> s

\* RAM.update with the default case falling into CTRL_SET: every control value
\* but ENABLE stores the data bus
RAM_update_default(s) ==
    LET address == LowBits(getValue(s, "regAddress"), WORD_SIZE)
        ctl == getValue(s, "ctrlRam")
    IN CASE s.data[address] = null -> [s EXCEPT !.thrown = TRUE]
         [] ctl = CTRL_ENB ->
              Bus_setValue(s, "dataBus", LowBits(RamWord_getValue(s.data[address]), WORD_SIZE))
         [] OTHER ->
              [s EXCEPT !.data[address] =
                   RamWord_setValue(LowBits(getValue(s, "dataBus"), WORD_SIZE)),
                        !.textValue = @ \ {address}]

\* this.data[address] is null where a line that did not assemble was installed:
\* getValue() and setValue() of null raise a TypeError and nothing is written.
\* setValue(value) is called without a text, so textValue becomes null
RAM_update(s) ==
    LET address == LowBits(getValue(s, "regAddress"), WORD_SIZE)
        ctl == getValue(s, "ctrlRam")
    IN CASE ctl \in {CTRL_ENB, CTRL_SET} /\ s.data[address] = null ->
              [s EXCEPT !.thrown = TRUE]
         [] ctl = CTRL_ENB ->
              Bus_setValue(s, "dataBus", LowBits(RamWord_getValue(s.data[address]), WORD_SIZE))
         [] ctl = CTRL_SET ->
              [s EXCEPT !.data[address] =
                   RamWord_setValue(LowBits(getValue(s, "dataBus"), WORD_SIZE)),
                        !.textValue = @ \ {address}]
         [] OTHER -> s

----------------------------------------------------------------------------
(* Decoder.  Every micro-step is an operator from the machine state to the *)
(* machine state: it writes the control buses and stores the micro-step it *)
(* returns in currentInstruction (Decoder.update assigns the return value).*)

\* "return this.<next>" of a micro-step
Return(s, next) == [s EXCEPT !.currentInstruction = next]

\* the instruction fields the micro-steps extract from the instruction register
ins_type(ins) == (ins \div 64) % 4
ins_body(ins) == (ins \div 8) % 8
ins_bit2(ins) == Bit(ins, 2)
ins_bit1(ins) == Bit(ins, 1)
ins_bit0(ins) == Bit(ins, 0)

fetch_step1(s) ==
    Return(Bus_setValue(Bus_setValue(s, "ctrlPC", CTRL_ENB), "ctrlAddress", CTRL_SET),
           "fetch_step2")

\* fetch_step2 with its two values exchanged: INCREMENT goes to the address
\* register's control bus
fetch_step2_swapped(s) ==
    Return(Bus_setValue(Bus_setValue(s, "ctrlPC", 0), "ctrlAddress", CTRL_INC),
           "fetch_step3")

fetch_step2(s) ==
    Return(Bus_setValue(Bus_setValue(s, "ctrlPC", CTRL_INC), "ctrlAddress", 0),
           "fetch_step3")

fetch_step3(s) ==
    Return(Bus_setValue(Bus_setValue(Bus_setValue(s, "ctrlPC", 0),
                                     "ctrlRam", CTRL_ENB), "ctrlIns", CTRL_SET),
           "fetch_step4")

\* fetch_step4 without instructionControl.setValue(0): SET stays on the
\* instruction register's control bus
fetch_step4_keep(s) ==
    Return(Bus_setValue(s, "ctrlRam", 0), "execute")

fetch_step4(s) ==
    Return(Bus_setValue(Bus_setValue(s, "ctrlRam", 0), "ctrlIns", 0), "execute")

\* execute_ram_step1 taking the address from the data register (bit 0)
execute_ram_step1_data(s) ==
    LET ins == getValue(s, "regIns")
        s1 == IF ins_bit2(ins) # 0 THEN Bus_setValue(s, "ctrlPC", CTRL_ENB)
              ELSE IF ins_bit0(ins) = 0 THEN Bus_setValue(s, "ctrlA", CTRL_ENB)
              ELSE Bus_setValue(s, "ctrlB", CTRL_ENB)
    IN Return(Bus_setValue(s1, "ctrlAddress", CTRL_SET), "execute_ram_step2")

execute_ram_step1(s) ==
    LET ins == getValue(s, "regIns")
        s1 == IF ins_bit2(ins) # 0 THEN Bus_setValue(s, "ctrlPC", CTRL_ENB)
              ELSE IF ins_bit1(ins) = 0 THEN Bus_setValue(s, "ctrlA", CTRL_ENB)
              ELSE Bus_setValue(s, "ctrlB", CTRL_ENB)
    IN Return(Bus_setValue(s1, "ctrlAddress", CTRL_SET), "execute_ram_step2")

\* execute_ram_step2 that never counts the program counter past the literal
execute_ram_step2_nocount(s) ==
    Return(Bus_setValue(Bus_setValue(Bus_setValue(s, "ctrlA", 0), "ctrlB", 0),
                        "ctrlAddress", 0),
           "execute_ram_step3")

execute_ram_step2(s) ==
    LET ins == getValue(s, "regIns")
        s1 == IF ins_bit2(ins) # 0 THEN Bus_setValue(s, "ctrlPC", CTRL_INC)
              ELSE Bus_setValue(Bus_setValue(s, "ctrlA", 0), "ctrlB", 0)
    IN Return(Bus_setValue(s1, "ctrlAddress", 0), "execute_ram_step3")

execute_ram_step3(s) ==
    LET ins == getValue(s, "regIns")
        read == ins_body(ins) = INS_B_RAM_READ
        ramRW == IF read THEN CTRL_ENB ELSE CTRL_SET
        regRW == IF read THEN CTRL_SET ELSE CTRL_ENB
        s1 == Bus_setValue(Bus_setValue(s, "ctrlPC", 0), "ctrlRam", ramRW)
        s2 == IF ins_bit0(ins) = 0 THEN Bus_setValue(s1, "ctrlA", regRW)
              ELSE Bus_setValue(s1, "ctrlB", regRW)
    IN Return(s2, "execute_ram_step4")

execute_ram_step4(s) ==
    Return(Bus_setValue(Bus_setValue(Bus_setValue(s, "ctrlRam", 0), "ctrlA", 0), "ctrlB", 0),
           "fetch_step1")

execute_alui_step1(s) ==
    Return(Bus_setValue(Bus_setValue(s, "ctrlPC", CTRL_ENB), "ctrlAddress", CTRL_SET),
           "execute_alui_step2")

execute_alui_step2(s) ==
    Return(Bus_setValue(Bus_setValue(s, "ctrlPC", CTRL_INC), "ctrlAddress", 0),
           "execute_alui_step3")

execute_alui_step3(s) ==
    LET ins == getValue(s, "regIns")
        s1 == Bus_setValue(Bus_setValue(s, "ctrlPC", 0), "ctrlRam", CTRL_ENB)
        s2 == IF ins_bit2(ins) = 0 THEN Bus_setValue(s1, "ctrlT1", CTRL_SET)
              ELSE Bus_setValue(s1, "ctrlT2", CTRL_SET)
    IN Return(s2, "execute_alui_step4")

\* execute_alui_step4 that loads the second operand for NOT as well
execute_alui_step4_noskip(s) ==
    Return(Bus_setValue(Bus_setValue(Bus_setValue(s, "ctrlRam", 0), "ctrlT1", 0), "ctrlT2", 0),
           "execute_alui_step5")

execute_alui_step4(s) ==
    LET ins == getValue(s, "regIns")
        s1 == Bus_setValue(Bus_setValue(Bus_setValue(s, "ctrlRam", 0), "ctrlT1", 0), "ctrlT2", 0)
    IN Return(s1, IF ins_body(ins) = ALU_NOT THEN "execute_alu_step7"
                  ELSE "execute_alui_step5")

execute_alui_step5(s) ==
    LET ins == getValue(s, "regIns")
        s1 == IF ins_bit1(ins) = 0 THEN Bus_setValue(s, "ctrlA", CTRL_ENB)
              ELSE Bus_setValue(s, "ctrlB", CTRL_ENB)
        s2 == IF ins_bit2(ins) = 0 THEN Bus_setValue(s1, "ctrlT2", CTRL_SET)
              ELSE Bus_setValue(s1, "ctrlT1", CTRL_SET)
    IN Return(s2, "execute_alui_step6")

execute_alui_step6(s) ==
    Return(Bus_setValue(Bus_setValue(Bus_setValue(Bus_setValue(s,
               "ctrlA", 0), "ctrlB", 0), "ctrlT1", 0), "ctrlT2", 0),
           "execute_alu_step7")

execute_alur_step1(s) ==
    LET ins == getValue(s, "regIns")
        s1 == IF ins_bit2(ins) # 0 THEN Bus_setValue(s, "ctrlB", CTRL_ENB)
              ELSE Bus_setValue(s, "ctrlA", CTRL_ENB)
    IN Return(Bus_setValue(s1, "ctrlT1", CTRL_SET), "execute_alur_step2")

\* execute_alur_step2 that loads a second operand for NOT as well
execute_alur_step2_noskip(s) ==
    Return(Bus_setValue(Bus_setValue(Bus_setValue(s, "ctrlA", 0), "ctrlB", 0), "ctrlT1", 0),
           "execute_alur_step3")

execute_alur_step2(s) ==
    LET ins == getValue(s, "regIns")
        s1 == Bus_setValue(Bus_setValue(Bus_setValue(s, "ctrlA", 0), "ctrlB", 0), "ctrlT1", 0)
    IN Return(s1, IF ins_body(ins) = ALU_NOT THEN "execute_alu_step7"
                  ELSE "execute_alur_step3")

\* execute_alur_step3 testing the T1 bit again: T2 gets the first operand
execute_alur_step3_first(s) ==
    LET ins == getValue(s, "regIns")
        s1 == IF ins_bit2(ins) # 0 THEN Bus_setValue(s, "ctrlB", CTRL_ENB)
              ELSE Bus_setValue(s, "ctrlA", CTRL_ENB)
    IN Return(Bus_setValue(s1, "ctrlT2", CTRL_SET), "execute_alur_step4")

execute_alur_step3(s) ==
    LET ins == getValue(s, "regIns")
        s1 == IF ins_bit1(ins) # 0 THEN Bus_setValue(s, "ctrlB", CTRL_ENB)
              ELSE Bus_setValue(s, "ctrlA", CTRL_ENB)
    IN Return(Bus_setValue(s1, "ctrlT2", CTRL_SET), "execute_alur_step4")

execute_alur_step4(s) ==
    Return(Bus_setValue(Bus_setValue(Bus_setValue(s, "ctrlA", 0), "ctrlB", 0), "ctrlT2", 0),
           "execute_alu_step7")

execute_alu_step7(s) ==
    LET ins == getValue(s, "regIns")
        s1 == Bus_setValue(s, "ctrlALU", ins_body(ins))
        s2 == IF ins_bit0(ins) = 0 THEN Bus_setValue(s1, "ctrlA", CTRL_SET)
              ELSE Bus_setValue(s1, "ctrlB", CTRL_SET)
    IN Return(s2, "execute_alu_step8")

execute_alu_step8(s) ==
    Return(Bus_setValue(Bus_setValue(Bus_setValue(s, "ctrlALU", 0), "ctrlA", 0), "ctrlB", 0),
           "fetch_step1")

\* Object.values(JMP_INSTRUCTIONS).indexOf(ins_body) >= 0: the jump has a name
JMP_named(body) == body \in {INS_JMP_JMP, INS_JMP_JLZ, INS_JMP_JGZ, INS_JMP_JEZ}

\* condition_flag with JGZ testing the Sign flag alone
condition_flag_sign(body, flags) ==
    LET z == BitAnd(flags, FLGS_Z, WORD_SIZE) # 0
        sg == BitAnd(flags, FLGS_S, WORD_SIZE) # 0
    IN CASE body = INS_JMP_JEZ -> z
         [] body = INS_JMP_JGZ -> ~sg
         [] body = INS_JMP_JLZ -> ~(~sg \/ z)
         [] OTHER -> TRUE

\* condition_flag of execute_jump
condition_flag(body, flags) ==
    LET z == BitAnd(flags, FLGS_Z, WORD_SIZE) # 0
        sg == BitAnd(flags, FLGS_S, WORD_SIZE) # 0
    IN CASE body = INS_JMP_JEZ -> z
         [] body = INS_JMP_JGZ -> ~(sg \/ z)
         [] body = INS_JMP_JLZ -> ~(~sg \/ z)
         [] OTHER -> TRUE

\* execute_jump returning to fetch_step1 whenever the jump is not taken: the
\* literal of an immediate jump is left in the instruction stream
execute_jump_noskip(s) ==
    LET ins == getValue(s, "regIns")
        body == ins_body(ins)
    IN IF ~JMP_named(body) THEN [s EXCEPT !.thrown = TRUE]
       ELSE IF condition_flag(body, getValue(s, "alu")) THEN Return(s, "execute_jump_step1")
       ELSE Return(s, "fetch_step1")

\* Object.keys(JMP_INSTRUCTIONS)[-1] is undefined, and undefined.toUpperCase()
\* raises a TypeError before any control bus is written
execute_jump(s) ==
    LET ins == getValue(s, "regIns")
        body == ins_body(ins)
    IN IF ~JMP_named(body) THEN [s EXCEPT !.thrown = TRUE]
       ELSE IF condition_flag(body, getValue(s, "alu")) THEN Return(s, "execute_jump_step1")
       ELSE IF ins_bit2(ins) # 0
            THEN Return(Bus_setValue(s, "ctrlPC", CTRL_INC), "execute_jump_step4")
       ELSE Return(s, "fetch_step1")

\* execute_jump_step1 with the test of ins_register inverted
execute_jump_step1_other(s) ==
    LET ins == getValue(s, "regIns")
        s1 == IF ins_bit1(ins) # 0 THEN Bus_setValue(s, "ctrlA", CTRL_ENB)
              ELSE Bus_setValue(s, "ctrlB", CTRL_ENB)
    IN IF ins_bit2(ins) # 0
       THEN Return(Bus_setValue(Bus_setValue(s, "ctrlPC", CTRL_ENB), "ctrlAddress", CTRL_SET),
                   "execute_jump_step2")
       ELSE Return(Bus_setValue(s1, "ctrlPC", CTRL_SET), "execute_jump_step4")

execute_jump_step1(s) ==
    LET ins == getValue(s, "regIns")
        s1 == IF ins_bit1(ins) = 0 THEN Bus_setValue(s, "ctrlA", CTRL_ENB)
              ELSE Bus_setValue(s, "ctrlB", CTRL_ENB)
    IN IF ins_bit2(ins) # 0
       THEN Return(Bus_setValue(Bus_setValue(s, "ctrlPC", CTRL_ENB), "ctrlAddress", CTRL_SET),
                   "execute_jump_step2")
       ELSE Return(Bus_setValue(s1, "ctrlPC", CTRL_SET), "execute_jump_step4")

\* execute_jump_step2 that latches the target in the same cycle
execute_jump_step2_latch(s) ==
    Return(Bus_setValue(Bus_setValue(Bus_setValue(s, "ctrlPC", CTRL_SET), "ctrlAddress", 0),
                        "ctrlRam", CTRL_ENB),
           "execute_jump_step4")

execute_jump_step2(s) ==
    Return(Bus_setValue(Bus_setValue(s, "ctrlPC", CTRL_INC), "ctrlAddress", 0),
           "execute_jump_step3")

execute_jump_step3(s) ==
    Return(Bus_setValue(Bus_setValue(s, "ctrlRam", CTRL_ENB), "ctrlPC", CTRL_SET),
           "execute_jump_step4")

\* execute_jump_step4 without programControl.setValue(0): SET stays on the
\* program-counter control bus
execute_jump_step4_keep(s) ==
    Return(Bus_setValue(Bus_setValue(Bus_setValue(s, "ctrlRam", 0), "ctrlA", 0), "ctrlB", 0),
           "fetch_step1")

execute_jump_step4(s) ==
    Return(Bus_setValue(Bus_setValue(Bus_setValue(Bus_setValue(s,
               "ctrlRam", 0), "ctrlA", 0), "ctrlB", 0), "ctrlPC", 0),
           "fetch_step1")

\* execute with "return this.fetch_step1" for a zero word: the micro-step is
\* returned, not run
execute_return(s) ==
    LET ins == getValue(s, "regIns")
        type == ins_type(ins)
    IN IF ins = 0 THEN Return(s, "fetch_step1")
       ELSE CASE type = INS_RAM -> execute_ram_step1(s)
              [] type = INS_ALU_I -> execute_alui_step1(s)
              [] type = INS_ALU_R -> execute_alur_step1(s)
              [] type = INS_JMP -> execute_jump(s)

\* execute without the test for a zero word: the word 0 is dispatched by its
\* type, as a RAM instruction
execute_typed(s) ==
    LET ins == getValue(s, "regIns")
        type == ins_type(ins)
    IN CASE type = INS_RAM -> execute_ram_step1(s)
         [] type = INS_ALU_I -> execute_alui_step1(s)
         [] type = INS_ALU_R -> execute_alur_step1(s)
         [] type = INS_JMP -> execute_jump(s)

\* the dispatch: a zero word runs fetch_step1 at once, any other word the first
\* micro-step of its family, in the same cycle
execute(s) ==
    LET ins == getValue(s, "regIns")
        type == ins_type(ins)
    IN IF ins = 0 THEN fetch_step1(s)
       ELSE CASE type = INS_RAM -> execute_ram_step1(s)
              [] type = INS_ALU_I -> execute_alui_step1(s)
              [] type = INS_ALU_R -> execute_alur_step1(s)
              [] type = INS_JMP -> execute_jump(s)

MicroSteps ==
    {"fetch_step1", "fetch_step2", "fetch_step3", "fetch_step4", "execute",
     "execute_ram_step2", "execute_ram_step3", "execute_ram_step4",
     "execute_alui_step2", "execute_alui_step3", "execute_alui_step4",
     "execute_alui_step5", "execute_alui_step6",
     "execute_alur_step2", "execute_alur_step3", "execute_alur_step4",
     "execute_alu_step7", "execute_alu_step8",
     "execute_jump_step1", "execute_jump_step2", "execute_jump_step3",
     "execute_jump_step4"}

\* this.currentInstruction = this.currentInstruction()
Decoder_update(s) ==
    LET c == s.currentInstruction IN
    CASE c = "fetch_step1" -> fetch_step1(s)
      [] c = "fetch_step2" -> fetch_step2(s)
      [] c = "fetch_step3" -> fetch_step3(s)
      [] c = "fetch_step4" -> fetch_step4(s)
      [] c = "execute" -> execute(s)
      [] c = "execute_ram_step2" -> execute_ram_step2(s)
      [] c = "execute_ram_step3" -> execute_ram_step3(s)
      [] c = "execute_ram_step4" -> execute_ram_step4(s)
      [] c = "execute_alui_step2" -> execute_alui_step2(s)
      [] c = "execute_alui_step3" -> execute_alui_step3(s)
      [] c = "execute_alui_step4" -> execute_alui_step4(s)
      [] c = "execute_alui_step5" -> execute_alui_step5(s)
      [] c = "execute_alui_step6" -> execute_alui_step6(s)
      [] c = "execute_alur_step2" -> execute_alur_step2(s)
      [] c = "execute_alur_step3" -> execute_alur_step3(s)
      [] c = "execute_alur_step4" -> execute_alur_step4(s)
      [] c = "execute_alu_step7" -> execute_alu_step7(s)
      [] c = "execute_alu_step8" -> execute_alu_step8(s)
      [] c = "execute_jump_step1" -> execute_jump_step1(s)
      [] c = "execute_jump_step2" -> execute_jump_step2(s)
      [] c = "execute_jump_step3" -> execute_jump_step3(s)
      [] c = "execute_jump_step4" -> execute_jump_step4(s)

Decoder_reset(s) == [s EXCEPT !.currentInstruction = "fetch_step1"]

----------------------------------------------------------------------------
(* Simulation: the kernel operations *)

\* this.busses.forEach(b => b.clean())
cleanBusses(s) == [s EXCEPT !.dirty = [n \in Busses |-> FALSE]]

\* a reset() that reaches the registers alone, not the control and data buses
resetBusses_registers(s) ==
    [s EXCEPT !.numValue = [n \in Busses |-> IF n \in RegisterNames THEN 0 ELSE s.numValue[n]]]

\* this.busses.forEach(b => b.reset()): numValue = 0, the dirty bit is kept
resetBusses(s) == [s EXCEPT !.numValue = [n \in Busses |-> 0]]

\* the one element of a one-element set
The(S) == CHOOSE x \in S : TRUE

\* update_state() without its last line, the second update_set pass
update_transfer_onepass(s1) ==
    The({RAM_update(s5) :
         s5 \in {ALU_update(s4) :
         s4 \in {forEach_update_set(s3) :
         s3 \in {forEach_update_enable(s2) :
         s2 \in {ReadOnlyBus_clean(Bus_setValue(s1, "dataBus", 0), "dataBus")}}}}})

\* update_state() without this.dataBus.clean() after this.dataBus.setValue(0)
update_transfer_noclean(s1) ==
    The({IF s6.thrown THEN s6 ELSE forEach_update_set(s6) :
         s6 \in {RAM_update(s5) :
         s5 \in {ALU_update(s4) :
         s4 \in {forEach_update_set(s3) :
         s3 \in {forEach_update_enable(s2) :
         s2 \in {Bus_setValue(s1, "dataBus", 0)}}}}}})

\* update_state() after this.decoder.update(): the statements in program order,
\* innermost first, each evaluated once on the state the one before it left
update_transfer(s1) ==
    The({IF s6.thrown THEN s6 ELSE forEach_update_set(s6) :
         s6 \in {RAM_update(s5) :
         s5 \in {ALU_update(s4) :
         s4 \in {forEach_update_set(s3) :
         s3 \in {forEach_update_enable(s2) :
         s2 \in {ReadOnlyBus_clean(Bus_setValue(s1, "dataBus", 0), "dataBus")}}}}}})

\* one clock pulse.  A TypeError in the decoder leaves update_state after
\* cleanBusses() and before anything else has changed; one in RAM.update
\* leaves it before the last update_set pass.
update_state(s) ==
    The({IF s1.thrown THEN s1 ELSE update_transfer(s1) :
         s1 \in {Decoder_update(cleanBusses([s EXCEPT !.thrown = FALSE, !.warned = FALSE,
                                                       !.truncated = {}]))}})

Simulation_reset(s) == Decoder_reset(resetBusses(s))

----------------------------------------------------------------------------
(* The assembler.  A source line is a sequence of tokens separated by one  *)
(* space; a token is a word (a mnemonic or an operand) or the text of a    *)
(* number: its base, its sign and its digits.                              *)

Word(w) == [w |-> w, base |-> 0, neg |-> FALSE, digits |-> <<>>]
Number(base, neg, digits) == [w |-> "#", base |-> base, neg |-> neg, digits |-> digits]

Dec(digits) == Number(10, FALSE, digits)
Hex(digits) == Number(16, FALSE, digits)

\* patternHexNumber, patternBinNumber, patternDecNumber: the token is a literal
IsLiteral(tok) ==
    /\ tok.w = "#"
    /\ \/ tok.base = 16 /\ ~tok.neg /\ Len(tok.digits) \in 1..2
       \/ tok.base = 2 /\ ~tok.neg /\ Len(tok.digits) \in 1..8
       \/ tok.base = 10 /\ Len(tok.digits) \in 1..3

\* parseInt(text, base)
RECURSIVE DigitsValue(_, _)
DigitsValue(digits, base) ==
    IF digits = <<>> THEN 0
    ELSE DigitsValue(SubSeq(digits, 1, Len(digits) - 1), base) * base + digits[Len(digits)]

parseInt(tok) ==
    IF tok.neg THEN 0 - DigitsValue(tok.digits, tok.base)
    ELSE DigitsValue(tok.digits, tok.base)

ALU_INSTRUCTIONS(name) ==
    CASE name = "add" -> ALU_ADD
      [] name = "sub" -> ALU_SUB
      [] name = "and" -> ALU_AND
      [] name = "ior" -> ALU_OR
      [] name = "xor" -> ALU_XOR
      [] name = "not" -> ALU_NOT

JMP_INSTRUCTIONS(name) ==
    CASE name = "jmp" -> INS_JMP_JMP
      [] name = "jlz" -> INS_JMP_JLZ
      [] name = "jgz" -> INS_JMP_JGZ
      [] name = "jez" -> INS_JMP_JEZ

RAM_INSTRUCTIONS(name) ==
    CASE name = "load" -> RAM_READ
      [] name = "save" -> RAM_WRITE

\* (prefix << 6) | (infix << 3) | (x << 2) | (y << 1) | z
instructionValue(prefix, infix, x, y, z) == prefix * 64 + infix * 8 + x * 4 + y * 2 + z

B2N(b) == IF b THEN 1 ELSE 0

\* a pattern that is not anchored at its end accepts whatever follows its last
\* group: a token that only begins with a or b, and further tokens
BeginsAB(w) == w \in {"a", "b", "add", "and"}

\* patternAluInstruction: the groups of the match (empty when there is none).
\* The first alternative is anchored at the start of the line only, the
\* second at its end only.
matchAlu(line) ==
    LET n == Len(line) IN
    IF /\ n >= 4
       /\ line[1].w \in {"add", "sub", "and", "ior", "xor"}
       /\ line[2].w \in {"a", "b", "i"}
       /\ line[3].w \in {"a", "b", "i"}
       /\ BeginsAB(line[4].w)
    THEN <<line[1].w, line[2].w, line[3].w, IF line[4].w = "b" THEN "b" ELSE "a">>
    ELSE IF /\ n >= 3
            /\ line[n - 2].w = "not"
            /\ line[n - 1].w \in {"a", "b", "i"}
            /\ line[n].w \in {"a", "b"}
    THEN <<"not", line[n - 1].w, line[n].w>>
    ELSE <<>>

\* assembleAluInstruction with the T1 bit taken from the first operand alone
assembleAluInstruction_first(line) ==
    LET match == matchAlu(line)
        immediate == match[2] = "i" \/ match[3] = "i"
        prefix == IF immediate THEN INS_ALU_I ELSE INS_ALU_R
        infix == ALU_INSTRUCTIONS(match[1])
        t1 == B2N(match[2] = "b")
        t2 == IF match[1] = "not" THEN 0
              ELSE B2N(match[3] = "b" \/ (immediate /\ match[2] = "b"))
        d == IF match[1] = "not" THEN B2N(match[3] = "b") ELSE B2N(match[4] = "b")
    IN IF match = <<>> THEN null
       ELSE instructionValue(prefix, infix, t1, t2, d)

assembleAluInstruction(line) ==
    LET match == matchAlu(line)
        immediate == match[2] = "i" \/ match[3] = "i"
        prefix == IF immediate THEN INS_ALU_I ELSE INS_ALU_R
        infix == ALU_INSTRUCTIONS(match[1])
        t1 == B2N(match[2] = "b" \/ match[3] = "i")
        t2 == IF match[1] = "not" THEN 0
              ELSE B2N(match[3] = "b" \/ (immediate /\ match[2] = "b"))
        d == IF match[1] = "not" THEN B2N(match[3] = "b") ELSE B2N(match[4] = "b")
    IN IF match = <<>> THEN null
       ELSE instructionValue(prefix, infix, t1, t2, d)

\* patternJmpInstruction, anchored at both ends
matchJmp(line) ==
    IF /\ Len(line) = 2
       /\ line[1].w \in {"jmp", "jlz", "jgz", "jez"}
       /\ line[2].w \in {"a", "b", "i"}
    THEN <<line[1].w, line[2].w>>
    ELSE <<>>

assembleJmpInstruction(line) ==
    LET match == matchJmp(line) IN
    IF match = <<>> THEN null
    ELSE instructionValue(INS_JMP, JMP_INSTRUCTIONS(match[1]),
                          B2N(match[2] = "i"), B2N(match[2] = "b"), 0)

\* patternRamInstruction: save anchored at the start only, load at the end only
matchRam(line) ==
    LET n == Len(line) IN
    IF /\ n >= 3
       /\ line[1].w = "save"
       /\ line[2].w \in {"a", "b"}
       /\ BeginsAB(line[3].w)
    THEN <<"save", line[2].w, IF line[3].w = "b" THEN "b" ELSE "a">>
    ELSE IF /\ n >= 3
            /\ line[n - 2].w = "load"
            /\ line[n - 1].w \in {"a", "b", "i"}
            /\ line[n].w \in {"a", "b"}
    THEN <<"load", line[n - 1].w, line[n].w>>
    ELSE <<>>

assembleRamInstruction(line) ==
    LET match == matchRam(line)
        save == match[1] = "save"
        i == B2N(match[2] = "i")
        s == IF save THEN B2N(match[3] = "b") ELSE B2N(match[2] = "b")
        d == IF save THEN B2N(match[2] = "b") ELSE B2N(match[3] = "b")
    IN IF match = <<>> THEN null
       ELSE instructionValue(INS_RAM, RAM_INSTRUCTIONS(match[1]), i, s, d)

\* regExpNumber.exec(instruction): the place of the first literal, 0 if none
firstLiteral(line) ==
    IF \E k \in 1..Len(line) : IsLiteral(line[k])
    THEN CHOOSE k \in 1..Len(line) :
             IsLiteral(line[k]) /\ \A j \in 1..(k - 1) : ~IsLiteral(line[j])
    ELSE 0

\* assembleInstruction returning the literal before the instruction word
assembleInstruction_swapped(line) ==
    LET k == firstLiteral(line)
        immediateNumber == IF k = 0 THEN null ELSE parseInt(line[k])
        instruction == IF k = 0 THEN line ELSE [line EXCEPT ![k] = Word("i")]
        alu == assembleAluInstruction(instruction)
        jmp == assembleJmpInstruction(instruction)
        ram == assembleRamInstruction(instruction)
        instructionWord == IF alu # null THEN alu ELSE IF jmp # null THEN jmp ELSE ram
    IN IF instructionWord = null /\ k # 0 /\ instruction = <<Word("i")>>
       THEN <<immediateNumber>>
       ELSE IF k # 0 THEN <<immediateNumber, instructionWord>>
       ELSE <<instructionWord>>

\* the words of one line: [instructionWord, immediateNumber], [instructionWord]
\* or [immediateNumber], each the numValue its RamWord is constructed with
assembleInstruction(line) ==
    LET k == firstLiteral(line)
        immediateNumber == IF k = 0 THEN null ELSE parseInt(line[k])
        instruction == IF k = 0 THEN line ELSE [line EXCEPT ![k] = Word("i")]
        alu == assembleAluInstruction(instruction)
        jmp == assembleJmpInstruction(instruction)
        ram == assembleRamInstruction(instruction)
        instructionWord == IF alu # null THEN alu ELSE IF jmp # null THEN jmp ELSE ram
    IN IF instructionWord = null /\ k # 0 /\ instruction = <<Word("i")>>
       THEN <<immediateNumber>>
       ELSE IF k # 0 THEN <<instructionWord, immediateNumber>>
       ELSE <<instructionWord>>

\* for every word assembleInstruction returns, whether it is a RamWord with a
\* textValue: the instruction word is built with the line as its text, a
\* literal without one, and null is no RamWord
assembleText(line) ==
    LET ins == assembleInstruction(line) IN
    [i \in 1..Len(ins) |->
        i = 1 /\ ins[1] # null /\ (firstLiteral(line) = 0 \/ Len(ins) = 2)]

\* the text marks of the lines in order, joined half by half
RECURSIVE flatText(_)
flatText(lines) ==
    LET half == Len(lines) \div 2 IN
    IF lines = <<>> THEN <<>>
    ELSE IF Len(lines) = 1 THEN assembleText(lines[1])
    ELSE flatText(SubSeq(lines, 1, half)) \o flatText(SubSeq(lines, half + 1, Len(lines)))

\* the words of the lines in order, joined half by half
RECURSIVE flatAssemble(_)
flatAssemble(lines) ==
    LET half == Len(lines) \div 2 IN
    IF lines = <<>> THEN <<>>
    ELSE IF Len(lines) = 1 THEN assembleInstruction(lines[1])
    ELSE flatAssemble(SubSeq(lines, 1, half)) \o flatAssemble(SubSeq(lines, half + 1, Len(lines)))

\* the decimal text of n, three digits
DecLine(n) == <<Dec(<<n \div 100, (n \div 10) % 10, n % 10>>)>>

\* a program of 2^WORD_SIZE + 1 lines, the literals 1, 2, ..., 255, 0, 1; its
\* words and texts are worked out once
ProgramLong == [i \in 1..(WordLimit + 1) |-> DecLine(i % WordLimit)]
ProgramLongWords == flatAssemble(ProgramLong)
ProgramLongTexts == flatText(ProgramLong)

\* which words of the program come with the text of their line
flatMapText(lines) ==
    IF lines = ProgramLong THEN ProgramLongTexts ELSE flatText(lines)

\* programLines.map(assembleInstruction).flat()
flatMapAssemble(lines) ==
    IF lines = ProgramLong THEN ProgramLongWords ELSE flatAssemble(lines)

----------------------------------------------------------------------------
(* Simulation: construction and loadProgram *)

\* the state new Simulation() builds: every bus 0 and clean, 256 zero words
Constructed ==
    [numValue |-> [n \in Busses |-> 0],
     dirty |-> [n \in Busses |-> FALSE],
     data |-> [k \in 0..(WordLimit - 1) |-> 0],
     textValue |-> {},
     currentInstruction |-> "fetch_step1",
     thrown |-> FALSE,
     warned |-> FALSE,
     truncated |-> {}]

\* a loadProgram that installs the words and leaves the rest of the memory alone
loadProgram_over(s, program) ==
    LET words == flatMapAssemble(program)
        s1 == Simulation_reset(s)
        texts == flatMapText(program)
    IN [s1 EXCEPT !.data = [k \in DOMAIN s1.data |->
                               IF k < Len(words) THEN words[k + 1] ELSE s1.data[k]],
                  !.textValue = {k \in DOMAIN s1.data :
                                    IF k < Len(words) THEN texts[k + 1] ELSE k \in @}]

\* loadProgram: reset(), then every word of RAM.data is replaced
loadProgram(s, program) ==
    LET words == flatMapAssemble(program)
        s1 == Simulation_reset(s)
        texts == flatMapText(program)
    IN [s1 EXCEPT !.data = [k \in DOMAIN s1.data |->
                               IF k < Len(words) THEN words[k + 1] ELSE 0],
                  !.textValue = {k \in DOMAIN s1.data : k < Len(words) /\ texts[k + 1]}]

\* the "change" listener with "this.ram.data[idx] = value" ahead of
\* "textBox.value = value.getDisplayValue()": a null word is stored as well
editCell_stored(s, idx, text) ==
    LET ins == assembleInstruction(text) IN
    IF Len(ins) > 1 /\ idx > WordLimit - 1 - Len(ins) THEN s
    ELSE [s EXCEPT !.data = [k \in DOMAIN s.data \cup idx..(idx + Len(ins) - 1) |->
                                IF k \in idx..(idx + Len(ins) - 1) THEN ins[k - idx + 1]
                                ELSE s.data[k]],
                   !.textValue = {k \in DOMAIN s.data :
                                     IF k \in idx..(idx + Len(ins) - 1)
                                     THEN assembleText(text)[k - idx + 1]
                                     ELSE k \in @}]

\* the "change" listener without the test of idx against the number of words
editCell_unguarded(s, idx, text) ==
    LET ins == assembleInstruction(text) IN
    IF ins[1] = null THEN s
    ELSE [s EXCEPT !.data = [k \in DOMAIN s.data \cup idx..(idx + Len(ins) - 1) |->
                                IF k \in idx..(idx + Len(ins) - 1) THEN ins[k - idx + 1]
                                ELSE s.data[k]],
                   !.textValue = {k \in DOMAIN s.data :
                                     IF k \in idx..(idx + Len(ins) - 1)
                                     THEN assembleText(text)[k - idx + 1]
                                     ELSE k \in @}]

\* the "change" listener of a memory cell's input box: the words of the text are
\* installed from idx on, unless there are two and idx is past 255 - 2.  Only
\* the first word can be null (nothing matched): value.getDisplayValue() then
\* raises a TypeError ahead of the first store, and the listener ends there.
\* "this.ram.data[idx] = value" on an index past the end would lengthen the array
editCell(s, idx, text) ==
    LET ins == assembleInstruction(text) IN
    IF Len(ins) > 1 /\ idx > WordLimit - 1 - Len(ins) THEN s
    ELSE IF ins[1] = null THEN s
    ELSE [s EXCEPT !.data = [k \in DOMAIN s.data \cup idx..(idx + Len(ins) - 1) |->
                                IF k \in idx..(idx + Len(ins) - 1) THEN ins[k - idx + 1]
                                ELSE s.data[k]],
                   !.textValue = {k \in DOMAIN s.data :
                                     IF k \in idx..(idx + Len(ins) - 1)
                                     THEN assembleText(text)[k - idx + 1]
                                     ELSE k \in @}]

\* the machine state held by the variables
Machine ==
    [numValue |-> numValue, dirty |-> dirty, data |-> data, textValue |-> textValue,
     currentInstruction |-> currentInstruction, thrown |-> thrown, warned |-> warned,
     truncated |-> truncated]

----------------------------------------------------------------------------
(* Bounds and inputs of the model *)

\* update_state() calls explored after a program is loaded
MaxCycles == 40

\* sizes of the stand-alone bus
MaxBusSize == 10

\* setValue calls on the stand-alone bus between two clean() calls
MaxWrites == 3

\* arguments of setValue on the stand-alone bus: 0 and, of either sign, the
\* integers next to every power of two up to one bit past the largest bus
BusArguments ==
    {0} \cup {sign * (Pow2(k) + d) :
                 sign \in {0 - 1, 1}, k \in 0..(MaxBusSize + 1), d \in {0 - 1, 0, 1}}

Line2(a, b) == <<Word(a), Word(b)>>
Line3(a, b, c) == <<Word(a), Word(b), Word(c)>>
Line4(a, b, c, d) == <<Word(a), Word(b), Word(c), Word(d)>>

\* values loaded into A and B before the instruction under test
Operands == {<<3, 4>>, <<5, 5>>, <<200, 100>>, <<128, 128>>}

\* the word that follows the instruction under test: "0x10" or "2"
Literals == {<<Hex(<<1, 0>>)>>, <<Dec(<<2>>)>>}

\* A and B are loaded, then any word w of 0..255 runs, followed by a literal
ProgramsAnyWord ==
    {<<Line3("load", "i", "a"), DecLine(v[1]), Line3("load", "i", "b"), DecLine(v[2]),
       DecLine(w), l>> :
        v \in Operands, w \in 0..(WordLimit - 1), l \in Literals}

\* an ALU instruction leaves Sign or Zero set, then any jump word runs
ProgramsJump ==
    {<<f, DecLine(j), l>> :
        f \in {Line3("not", "a", "a"), Line4("xor", "a", "a", "a")},
        j \in (INS_JMP * 64)..(INS_JMP * 64 + 63), l \in Literals}

ProgramJmpAdd ==
    <<Line2("jmp", "i"), <<Hex(<<0, 2>>)>>, <<Dec(<<0>>)>>, Line4("add", "a", "b", "a")>>

ProgramLoadImmediate == <<Line3("load", "i", "a"), <<Hex(<<1, 0>>)>>>>

ProgramZero == <<<<Dec(<<0>>)>>>>

\* a program whose third line matches no grammar and is no literal
ProgramBadLine ==
    <<Line2("jmp", "i"), <<Hex(<<0, 2>>)>>, <<Word("halt")>>, Line4("add", "a", "b", "a")>>

\* the literals -5, 999 and 0xff, one a line, then "load 7 a" with its literal inline
ProgramLiterals ==
    <<<<Number(10, TRUE, <<5>>)>>, <<Dec(<<9, 9, 9>>)>>, <<Hex(<<15, 15>>)>>,
      <<Word("load"), Dec(<<7>>), Word("a")>>>>

\* the programs the host loads while the machine runs
ProgramsHost ==
    {ProgramJmpAdd, ProgramLoadImmediate, ProgramBadLine, ProgramLiterals, ProgramLong}

\* update_state() calls between two loads, when the host also resets and edits
MaxHostCycles == 8

\* cell edits between two loads
MaxEdits == 1

\* the memory cells the host edits, and the texts it types into them
EditAddresses == {1, WordLimit - 1}

EditTexts ==
    {<<Word("load"), Hex(<<1, 0>>), Word("a")>>, <<Number(10, TRUE, <<5>>)>>, <<Word("halt")>>,
     <<Word("halt"), Dec(<<5>>)>>}

\* onButtonPress calls in one run
MaxPresses == 3

\* "jmp i" to address 0, for ever
ProgramSpin == <<Line2("jmp", "i"), <<Hex(<<0, 0>>)>>>>

\* "not a a", then "jmp i" to address 0, for ever: A is 0 and 255 in turn
ProgramToggle == <<Line3("not", "a", "a"), Line2("jmp", "i"), <<Hex(<<0, 0>>)>>>>

\* the programs that run while buttons are pressed
ProgramsUI == {ProgramSpin, ProgramToggle}

\* the ALU lines "op x y d", "op 9 r d", "op r 9 d", "not r d" and "not 9 d"
AluLines ==
    {<<Word(op), x, y, Word(d)>> :
        op \in {"add", "sub", "and", "ior", "xor"},
        x \in {Word("a"), Word("b")}, y \in {Word("a"), Word("b")}, d \in {"a", "b"}}
    \cup {<<Word(op), Dec(<<9>>), r, Word(d)>> :
        op \in {"add", "sub", "and", "ior", "xor"}, r \in {Word("a"), Word("b")}, d \in {"a", "b"}}
    \cup {<<Word(op), r, Dec(<<9>>), Word(d)>> :
        op \in {"add", "sub", "and", "ior", "xor"}, r \in {Word("a"), Word("b")}, d \in {"a", "b"}}
    \cup {<<Word("not"), s, Word(d)>> :
        s \in {Word("a"), Word("b"), Dec(<<9>>)}, d \in {"a", "b"}}

\* A and B are loaded with v, then the ALU line runs
ProgramAlu(line, v) ==
    <<Line3("load", "i", "a"), DecLine(v[1]), Line3("load", "i", "b"), DecLine(v[2]), line>>

ProgramsAlu == {ProgramAlu(line, v) : line \in AluLines, v \in Operands}

\* B = 9 is saved at address A = 6, over the word of "add a b a"
ProgramSave ==
    <<Line3("load", "i", "a"), DecLine(6), Line3("load", "i", "b"), DecLine(9),
      Line3("save", "b", "a"), DecLine(0), Line4("add", "a", "b", "a")>>

Programs ==
    ProgramsAnyWord \cup ProgramsJump \cup ProgramsAlu
    \cup {ProgramJmpAdd, ProgramLoadImmediate, ProgramZero, ProgramSave}

----------------------------------------------------------------------------
(* History of a run, for stating properties; the machine never reads it *)

\* the addresses whose word differs between two memories
Changed(before, after) ==
    IF before = after THEN {} ELSE {k \in DOMAIN before : before[k] # after[k]}

HistInit(program) ==
    [words |-> flatMapAssemble(program),   \* the words loadProgram installed
     startCycle |-> 0,        \* cycles when fetch_step1 last ran
     startStep |-> "none",    \* the micro-step that ran it: fetch_step1 or execute
     startPC |-> 0,           \* regPC, regA, regB and the flags at that moment
     startA |-> 0,
     startB |-> 0,
     startFlags |-> 0,
     startT1 |-> 0,
     startT2 |-> 0,
     startWord |-> 0,         \* value of the memory word regPC pointed at
     prev |-> [cycle |-> 0, step |-> "none", PC |-> 0, A |-> 0, B |-> 0, flags |-> 0,
               T1 |-> 0, T2 |-> 0, written |-> {}],
                              \* the same, and written, when fetch_step1 ran the time before
     lastStep |-> "none",     \* the micro-step the last cycle ran
     completed |-> 0,         \* times a cycle left the decoder at fetch_step1
     latched |-> {},          \* addresses latched into regIns since fetch_step1 last ran
     written |-> {},          \* addresses whose word has changed since fetch_step1 last ran
     fetched |-> {},          \* addresses latched into regIns since the load
     aluRuns |-> 0]           \* cycles in which the ALU computed

\* fetch_step1 runs in this cycle: as the current micro-step, or from execute on a zero word
runsFetch1(s) ==
    \/ s.currentInstruction = "fetch_step1"
    \/ s.currentInstruction = "execute" /\ getValue(s, "regIns") = 0

Observe(h, s, s2, cyc) ==
    LET h1 == IF runsFetch1(s)
              THEN [h EXCEPT !.startCycle = cyc,
                             !.startStep = s.currentInstruction,
                             !.startPC = getValue(s, "regPC"),
                             !.startA = getValue(s, "regA"),
                             !.startB = getValue(s, "regB"),
                             !.startFlags = getValue(s, "alu"),
                             !.startT1 = getValue(s, "regT1"),
                             !.startT2 = getValue(s, "regT2"),
                             !.prev = [cycle |-> h.startCycle, step |-> h.startStep,
                                       PC |-> h.startPC, A |-> h.startA, B |-> h.startB,
                                       flags |-> h.startFlags, T1 |-> h.startT1,
                                       T2 |-> h.startT2, written |-> h.written],
                             !.startWord = RamWord_getValue(s.data[getValue(s, "regPC")]),
                             !.latched = {},
                             !.written = {}]
              ELSE h
        ran == ~s2.thrown
        load == ran /\ Bit(getValue(s2, "ctrlIns"), 0) = 1
        address == getValue(s, "regAddress")
    IN [h1 EXCEPT !.lastStep = s.currentInstruction,
                  !.completed = @ + B2N(ran /\ s2.currentInstruction = "fetch_step1"),
                  !.latched = IF load THEN @ \cup {address} ELSE @,
                  !.written = @ \cup Changed(s.data, s2.data),
                  !.fetched = IF load THEN @ \cup {address} ELSE @,
                  !.aluRuns = @ + B2N(ran /\ getValue(s2, "ctrlALU") # 0)]


\* what the host has observed before its first call
HostIdle == [op |-> "none", changed |-> {}, idx |-> 0, words |-> <<>>, edits |-> 0]

\* the host has called op, which took the machine from s to s2
HostCalled(op, s, s2, idx, words) ==
    [op |-> op, changed |-> Changed(s.data, s2.data), idx |-> idx, words |-> words,
     edits |-> CASE op = "loadProgram" -> 0     \* cell edits since the program was loaded
                 [] op = "edit" -> host.edits + 1
                 [] OTHER -> host.edits]

----------------------------------------------------------------------------
(* The simulation: a program is loaded, then the host calls update_state() *)

\* what has been seen of the stand-alone bus since its last clean(): setValue
\* calls and warnings, and the same since its last reset() (-1: no reset() yet)
BusLogIdle == [writes |-> 0, warnings |-> 0, sinceReset |-> 0 - 1, resetWarnings |-> 0]

BusIdle ==
    /\ busSize = 0
    /\ busNum = 0
    /\ busDirty = FALSE
    /\ busArg = <<>>
    /\ busLog = BusLogIdle

AluIdle == aluCase = [op |-> 0, t1 |-> 0, t2 |-> 0, done |-> FALSE, bus |-> 0, flags |-> 0]

AsmIdle == asm = [line |-> <<>>, done |-> FALSE, out |-> <<>>]

RegIdle ==
    regCase = [ctrl |-> 0, value |-> 0, enabled |-> FALSE, driven |-> 0,
               done |-> FALSE, out |-> 0]

\* no button has been pressed: _state = null and _stop = false as constructed
UiIdle ==
    /\ _state = "null"
    /\ _stop = FALSE
    /\ calls = [p \in 1..MaxPresses |->
                    [button |-> "none", currentState |-> "null", pc |-> "idle", started |-> "none"]]

\* the machine as constructed, not stepped
MachineIdle ==
    /\ numValue = Constructed.numValue
    /\ dirty = Constructed.dirty
    /\ data = Constructed.data
    /\ textValue = Constructed.textValue
    /\ currentInstruction = Constructed.currentInstruction
    /\ thrown = Constructed.thrown
    /\ warned = Constructed.warned
    /\ truncated = Constructed.truncated
    /\ cycles = 0
    /\ hist = HistInit(<<>>)
    /\ host = HostIdle

InitMachine(programs) ==
    \E program \in programs : \E s \in {loadProgram(Constructed, program)} :
        /\ numValue = s.numValue
        /\ dirty = s.dirty
        /\ data = s.data
        /\ textValue = s.textValue
        /\ currentInstruction = s.currentInstruction
        /\ thrown = s.thrown
        /\ warned = s.warned
        /\ truncated = s.truncated
        /\ cycles = 0
        /\ hist = HistInit(program)
        /\ host = HostIdle

Init == InitMachine(Programs) /\ BusIdle /\ AluIdle /\ AsmIdle /\ RegIdle /\ UiIdle

\* the machine becomes s
Becomes(s) ==
    /\ numValue' = s.numValue
    /\ dirty' = s.dirty
    /\ data' = s.data
    /\ textValue' = s.textValue
    /\ currentInstruction' = s.currentInstruction
    /\ thrown' = s.thrown
    /\ warned' = s.warned
    /\ truncated' = s.truncated

\* the host calls update_state() once
StepCycle ==
    /\ cycles < MaxCycles
    /\ \E s \in {update_state(Machine)} :
           /\ Becomes(s)
           /\ hist' = Observe(hist, Machine, s, cycles)
           /\ host' = HostCalled("update_state", Machine, s, 0, <<>>)
    /\ cycles' = cycles + 1
    /\ UNCHANGED <<bvars, aluCase, asm, regCase, uvars>>

Next == StepCycle

Spec == Init /\ [][Next]_vars

----------------------------------------------------------------------------
(* The host loop of update_loop(): update_state() is called again and      *)
(* again, with no bound on the number of cycles                            *)

ProgramsLive == {ProgramZero, ProgramJmpAdd, ProgramLoadImmediate}

InitLive == InitMachine(ProgramsLive) /\ BusIdle /\ AluIdle /\ AsmIdle /\ RegIdle /\ UiIdle

StepCycleLive ==
    /\ Becomes(update_state(Machine))
    /\ UNCHANGED <<cycles, hist, host, bvars, aluCase, asm, regCase, uvars>>

NextLive == StepCycleLive

SpecLive == InitLive /\ [][NextLive]_vars /\ WF_vars(StepCycleLive)

----------------------------------------------------------------------------
(* The host at large: between update_state() calls it resets the machine,  *)
(* loads another program or edits a memory cell                            *)

InitHost == InitMachine(ProgramsHost) /\ BusIdle /\ AluIdle /\ AsmIdle /\ RegIdle /\ UiIdle

HostStep ==
    /\ cycles < MaxHostCycles
    /\ StepCycle

Reset ==
    /\ \E s \in {Simulation_reset(Machine)} :
           /\ Becomes(s)
           /\ host' = HostCalled("reset", Machine, s, 0, <<>>)
    /\ UNCHANGED <<cycles, hist, bvars, aluCase, asm, regCase, uvars>>

LoadProgram ==
    /\ \E program \in ProgramsHost : \E s \in {loadProgram(Machine, program)} :
           /\ Becomes(s)
           /\ hist' = HistInit(program)
           /\ host' = HostCalled("loadProgram", Machine, s, 0, flatMapAssemble(program))
    /\ cycles' = 0
    /\ UNCHANGED <<bvars, aluCase, asm, regCase, uvars>>

EditCell ==
    /\ host.edits < MaxEdits
    /\ \E idx \in EditAddresses, text \in EditTexts : \E s \in {editCell(Machine, idx, text)} :
           /\ Becomes(s)
           /\ host' = HostCalled("edit", Machine, s, idx, assembleInstruction(text))
    /\ UNCHANGED <<cycles, hist, bvars, aluCase, asm, regCase, uvars>>

NextHost == HostStep \/ Reset \/ LoadProgram \/ EditCell

SpecHost == InitHost /\ [][NextHost]_vars

----------------------------------------------------------------------------
(* A stand-alone Bus of any size: setValue, clean and getValue *)

InitBus ==
    /\ MachineIdle
    /\ UiIdle
    /\ AluIdle
    /\ AsmIdle
    /\ RegIdle
    /\ busSize \in {ReadOnlyBus_size(size) : size \in 1..MaxBusSize}
    /\ busNum = 0
    /\ busDirty = FALSE
    /\ busArg = <<>>
    /\ busLog = BusLogIdle

BusWrite ==
    /\ busLog.writes < MaxWrites
    /\ \E value \in BusArguments :
        /\ busNum' = Bus_stored(busSize, value)
        /\ busDirty' = TRUE
        /\ busArg' = <<value>>
        /\ busLog' = [writes |-> busLog.writes + 1,
                      warnings |-> busLog.warnings + Bus_warnings(busDirty),
                      sinceReset |-> IF busLog.sinceReset < 0 THEN busLog.sinceReset
                                     ELSE busLog.sinceReset + 1,
                      resetWarnings |-> busLog.resetWarnings + Bus_warnings(busDirty)]
        /\ UNCHANGED <<busSize, mvars, aluCase, asm, regCase, uvars>>

BusClean ==
    /\ busDirty
    /\ busDirty' = FALSE
    /\ busLog' = BusLogIdle
    /\ UNCHANGED <<busSize, busNum, busArg, mvars, aluCase, asm, regCase, uvars>>

\* reset(): numValue = 0, and nothing else
BusReset ==
    /\ busNum' = ReadOnlyBus_reset([numValue |-> [b \in {"bus"} |-> busNum]], "bus").numValue["bus"]
    /\ busArg' = <<>>
    /\ busLog' = [busLog EXCEPT !.sinceReset = 0, !.resetWarnings = 0]
    /\ UNCHANGED <<busSize, busDirty, mvars, aluCase, asm, regCase, uvars>>

NextBus == BusWrite \/ BusClean \/ BusReset

SpecBus == InitBus /\ [][NextBus]_vars

----------------------------------------------------------------------------
(* A stand-alone ALU evaluation: update() on any T1, T2 and opcode *)

InitALU ==
    /\ MachineIdle
    /\ UiIdle
    /\ BusIdle
    /\ AsmIdle
    /\ RegIdle
    /\ aluCase \in [op : ALU_ADD..ALU_NOT, t1 : 0..(WordLimit - 1), t2 : 0..(WordLimit - 1),
                    done : {FALSE}, bus : {0}, flags : {0}]

ALUEvaluate ==
    /\ ~aluCase.done
    /\ LET s == [Constructed EXCEPT !.numValue["regT1"] = aluCase.t1,
                                    !.numValue["regT2"] = aluCase.t2,
                                    !.numValue["ctrlALU"] = aluCase.op]
           r == ALU_update(s)
       IN aluCase' = [aluCase EXCEPT !.done = TRUE,
                                     !.bus = getValue(r, "dataBus"),
                                     !.flags = getValue(r, "alu")]
    /\ UNCHANGED <<mvars, bvars, asm, regCase, uvars>>

NextALU == ALUEvaluate

SpecALU == InitALU /\ [][NextALU]_vars

----------------------------------------------------------------------------
(* A stand-alone assembleInstruction call on any line of up to MaxOperands *)
(* operands after a first word.  No token of these lines holds the text of *)
(* a literal that follows it, so that replacing the first occurrence of    *)
(* the literal's text replaces the literal.                                *)

MaxOperands == 3

Mnemonics ==
    {"add", "sub", "and", "ior", "xor", "not", "jmp", "jlz", "jgz", "jez", "load", "save",
     "halt"}

\* the operands written in a line: a, b, the placeholder i, 5, 0x10, -5, 0b101
OperandTokens ==
    {Word("a"), Word("b"), Word("i"), Dec(<<5>>), Hex(<<1, 0>>), Number(10, TRUE, <<5>>),
     Number(2, FALSE, <<1, 0, 1>>)}

AsmLines ==
    UNION {{<<Word(m)>> \o ops : ops \in [1..n -> OperandTokens]} :
              m \in Mnemonics, n \in 0..MaxOperands}
    \cup {<<tok>> : tok \in OperandTokens}

InitAsm ==
    /\ MachineIdle
    /\ UiIdle
    /\ BusIdle
    /\ AluIdle
    /\ RegIdle
    /\ asm \in {[line |-> l, done |-> FALSE, out |-> <<>>] : l \in AsmLines}

Assemble ==
    /\ ~asm.done
    /\ asm' = [asm EXCEPT !.done = TRUE, !.out = assembleInstruction(asm.line)]
    /\ UNCHANGED <<mvars, bvars, aluCase, regCase, uvars>>

NextAsm == Assemble

SpecAsm == InitAsm /\ [][NextAsm]_vars

----------------------------------------------------------------------------
(* A stand-alone register cycle: the program counter with any value on its *)
(* control bus, register A enabled onto the data bus or not, and the part  *)
(* of update_state() that follows the decoder                              *)

\* values of the register before the cycle, and values register A drives
RegisterValues == {0, 1, WordLimit \div 2 - 1, WordLimit - 2, WordLimit - 1}
DrivenValues == {0, 7, WordLimit - 1}

InitRegister ==
    /\ MachineIdle
    /\ UiIdle
    /\ BusIdle
    /\ AluIdle
    /\ AsmIdle
    /\ regCase \in [ctrl : 0..(Pow2(CTRL_SIZE_SET_ENB_INC) - 1), value : RegisterValues,
                     enabled : BOOLEAN, driven : DrivenValues, done : {FALSE}, out : {0}]

RegisterCycle ==
    /\ ~regCase.done
    /\ LET s == [Constructed EXCEPT !.numValue["regPC"] = regCase.value,
                                    !.numValue["ctrlPC"] = regCase.ctrl,
                                    !.numValue["regA"] = regCase.driven,
                                    !.numValue["ctrlA"] =
                                        IF regCase.enabled THEN CTRL_ENB ELSE 0]
           r == update_transfer(cleanBusses(s))
       IN regCase' = [regCase EXCEPT !.done = TRUE, !.out = getValue(r, "regPC")]
    /\ UNCHANGED <<mvars, bvars, aluCase, asm, uvars>>

NextRegister == RegisterCycle

SpecRegister == InitRegister /\ [][NextRegister]_vars

----------------------------------------------------------------------------
(* The run modes: onButtonPress, update(), update_loop() and loop().  The  *)
(* functions are async: each runs without interruption up to an await on a *)
(* sleep, and goes on when the timer of that sleep fires; awaits on a      *)
(* function that has returned resume in the same turn.  A run u is the     *)
(* record of _state, _stop, the machine s and the place pc where the call  *)
(* stands: "update" in the sleep of update(), "sleep" in the sleep of      *)
(* update_loop(), "return" when update_loop() has returned, "failed" when  *)
(* update_state() has thrown and every caller's promise is rejected.       *)

\* update() up to its await
Simulation_update(u) ==
    The({[u EXCEPT !.state = IF u.state = "null" THEN "step" ELSE u.state,
                   !.s = s2,
                   !.pc = IF s2.thrown THEN "failed" ELSE "update"] :
         s2 \in {update_state(u.s)}})

\* update() after its await
Simulation_update_end(u) ==
    [u EXCEPT !.state = IF u.state = "step" THEN "null" ELSE u.state]

\* update_loop() up to the await of its first update()
update_loop(u) ==
    Simulation_update(IF u.state = "null"
                      THEN [u EXCEPT !.state = "instruction", !.stop = FALSE]
                      ELSE u)

\* update_loop() after its sleep: the test of the do-while, then the next
\* update() or the end of the function
update_loop_while(u) ==
    IF u.s.currentInstruction # "fetch_step1" /\ ~u.stop THEN Simulation_update(u)
    ELSE [u EXCEPT !.state = IF u.state = "instruction" THEN "null" ELSE u.state,
                   !.pc = "return"]

\* loop(): the test of its while, then update_loop() or the end of the function
loop_while(u) ==
    IF ~u.stop THEN update_loop(u) ELSE [u EXCEPT !.state = "null", !.pc = "done"]

\* loop() up to its first await
loop(u) == loop_while([u EXCEPT !.state = "loop", !.stop = FALSE])

\* onButtonPress starting at once, whatever sim.state() is
onButtonPress_nowait(state) == FALSE

\* onButtonPress: while (sim.state() != null) await sleep(1)
onButtonPress_waits(state) == state # "null"

\* onButtonPress after its wait: sim.update() is not awaited, so the handler
\* ends and update() goes on alone
onButtonPress_start(u, currentState, button) ==
    IF currentState = button THEN [u EXCEPT !.pc = "done"]
    ELSE CASE button = "step" -> Simulation_update(u)
           [] button = "instruction" -> update_loop(u)
           [] button = "loop" -> loop(u)

\* what the call of a button runs when the timer of its sleep fires
resume(u, button) ==
    IF u.pc = "update"
    THEN [Simulation_update_end(u) EXCEPT !.pc = IF button = "step" THEN "done" ELSE "sleep"]
    ELSE The({IF u1.pc # "return" THEN u1
              ELSE IF button = "instruction" THEN [u1 EXCEPT !.pc = "done"]
              ELSE loop_while(u1) :
              u1 \in {update_loop_while(u)}})

Buttons == {"step", "instruction", "loop"}

\* the run as call p finds it
Run(p) == [state |-> _state, stop |-> _stop, s |-> Machine, pc |-> calls[p].pc]

\* the run becomes u, left by call p
RunBecomes(u, p, call) ==
    /\ Becomes(u.s)
    /\ _state' = u.state
    /\ _stop' = u.stop
    /\ calls' = [calls EXCEPT ![p] = [call EXCEPT !.pc = u.pc]]

\* call p has started a run mode: it notes the _state it found
Started(call, u) ==
    IF u.pc = "done" THEN call ELSE [call EXCEPT !.started = _state]

\* a button is pressed: onButtonPress up to its first await
ButtonPress(p, button) ==
    /\ calls[p].pc = "idle"
    /\ \A q \in 1..(p - 1) : calls[q].pc # "idle"
    /\ \E call \in {[calls[p] EXCEPT !.button = button, !.currentState = _state]} :
           IF onButtonPress_waits(_state)
           THEN /\ _stop' = TRUE
                /\ calls' = [calls EXCEPT ![p] = [call EXCEPT !.pc = "wait"]]
                /\ UNCHANGED <<_state, numValue, dirty, data, textValue, currentInstruction,
                               thrown, warned, truncated>>
           ELSE \E u \in {onButtonPress_start([Run(p) EXCEPT !.stop = TRUE], _state, button)} :
                    RunBecomes(u, p, Started(call, u))
    /\ UNCHANGED <<cycles, hist, host, bvars, aluCase, asm, regCase>>

\* the sleep(1) of a waiting call ends and it finds sim.state() null
WaitOver(p) ==
    /\ calls[p].pc = "wait"
    /\ ~onButtonPress_waits(_state)
    /\ \E u \in {onButtonPress_start(Run(p), calls[p].currentState, calls[p].button)} :
           RunBecomes(u, p, Started(calls[p], u))
    /\ UNCHANGED <<cycles, hist, host, bvars, aluCase, asm, regCase>>

\* the sleep of update() or of update_loop() ends in call p
TimerFires(p) ==
    /\ calls[p].pc \in {"update", "sleep"}
    /\ \E u \in {resume(Run(p), calls[p].button)} : RunBecomes(u, p, calls[p])
    /\ UNCHANGED <<cycles, hist, host, bvars, aluCase, asm, regCase>>

InitUI == InitMachine(ProgramsUI) /\ BusIdle /\ AluIdle /\ AsmIdle /\ RegIdle /\ UiIdle

NextUI ==
    \/ \E p \in 1..MaxPresses, button \in Buttons : ButtonPress(p, button)
    \/ \E p \in 1..MaxPresses : WaitOver(p)
    \/ \E p \in 1..MaxPresses : TimerFires(p)

\* every timer fires: a sleeping call goes on, and a waiting call that keeps
\* finding sim.state() null gets past its wait; nobody has to press a button
SpecUI ==
    /\ InitUI
    /\ [][NextUI]_vars
    /\ \A p \in 1..MaxPresses : WF_vars(WaitOver(p)) /\ WF_vars(TimerFires(p))

----------------------------------------------------------------------------
(* Properties *)

regIns == getValue(Machine, "regIns")
regPC == getValue(Machine, "regPC")
regA == getValue(Machine, "regA")
regB == getValue(Machine, "regB")
flags == getValue(Machine, "alu")

\* the last cycle ended an instruction: the decoder is back at fetch_step1
AtBoundary == currentInstruction = "fetch_step1" /\ hist.lastStep # "none" /\ ~thrown

\* C1: from a state whose current micro-step is fetch_step1 with the program
\* counter at p, four update_state() calls leave memory[p] in the instruction
\* register and (p + 1) mod 256 in the program counter, whatever the word is
C1_FetchDeterminism ==
    (hist.startStep = "fetch_step1" /\ cycles = hist.startCycle + 4) =>
        /\ regIns = hist.startWord
        /\ regPC = (hist.startPC + 1) % WordLimit
        /\ currentInstruction = "execute"

\* a fetch that started away from address 0 has brought a zero word
C1_Witness ==
    /\ hist.startStep = "fetch_step1"
    /\ cycles = hist.startCycle + 4
    /\ hist.startPC = 4
    /\ hist.startWord = 0
    /\ regIns = 0
    /\ regPC = 5

BitsOf(x) == {i \in 0..(WORD_SIZE - 1) : (x \div Pow2(i)) % 2 = 1}

\* the result the claim gives for an opcode, as a predicate on the bus value
ExpectedResult(op, a, b, r) ==
    /\ r \in 0..(WordLimit - 1)
    /\ CASE op = ALU_ADD -> r = (a + b) % WordLimit
         [] op = ALU_SUB -> r = (a - b) % WordLimit
         [] op = ALU_AND -> BitsOf(r) = BitsOf(a) \cap BitsOf(b)
         [] op = ALU_OR -> BitsOf(r) = BitsOf(a) \cup BitsOf(b)
         [] op = ALU_XOR -> BitsOf(r) = (BitsOf(a) \cup BitsOf(b)) \ (BitsOf(a) \cap BitsOf(b))
         [] op = ALU_NOT -> BitsOf(r) = (0..(WORD_SIZE - 1)) \ BitsOf(a)

ZeroSet(f) == (f \div 2) % 2 = 1
SignSet(f) == f % 2 = 1

\* C2: for every opcode ADD, SUB, AND, IOR, XOR, NOT and all T1, T2 of 0..255 the
\* ALU drives the raw result mod 256 onto the data bus, sets Zero (bit 1) iff that
\* result is 0 and Sign (bit 0) iff its top bit is 1; ADD(200,100) = 44 with no
\* flag, SUB(5,5) = 0 with Zero, NOT(0) = 255 with Sign only, ADD(128,128) = 0
\* with Zero
C2_AluResultAndFlags ==
    aluCase.done =>
        /\ ExpectedResult(aluCase.op, aluCase.t1, aluCase.t2, aluCase.bus)
        /\ ZeroSet(aluCase.flags) <=> aluCase.bus = 0
        /\ SignSet(aluCase.flags) <=> aluCase.bus >= Pow2(WORD_SIZE - 1)
        /\ aluCase.flags \in 0..3
        /\ (aluCase.op = ALU_ADD /\ aluCase.t1 = 200 /\ aluCase.t2 = 100)
               => (aluCase.bus = 44 /\ aluCase.flags = 0)
        /\ (aluCase.op = ALU_SUB /\ aluCase.t1 = 5 /\ aluCase.t2 = 5)
               => (aluCase.bus = 0 /\ ZeroSet(aluCase.flags))
        /\ (aluCase.op = ALU_NOT /\ aluCase.t1 = 0)
               => (aluCase.bus = 255 /\ aluCase.flags = FLGS_S)
        /\ (aluCase.op = ALU_ADD /\ aluCase.t1 = 128 /\ aluCase.t2 = 128)
               => (aluCase.bus = 0 /\ ZeroSet(aluCase.flags))

\* ADD(128,128) has been evaluated: the sum wrapped to 0
C2_Witness ==
    /\ aluCase.done
    /\ aluCase.op = ALU_ADD
    /\ aluCase.t1 = 128
    /\ aluCase.t2 = 128
    /\ aluCase.bus = 0
    /\ aluCase.flags = FLGS_Z

\* the word assembled from "add a b a"
AddABA == assembleInstruction(Line4("add", "a", "b", "a"))[1]

\* an "add a b a" fetched from memory has just run to the end
AddABADone ==
    /\ AtBoundary
    /\ hist.lastStep = "execute_alu_step8"
    /\ hist.startWord = AddABA
    /\ regIns = AddABA

\* C3: one full instruction "add a b a" from A = a, B = b leaves A = (a + b) mod
\* 256 and B = b; A = 3, B = 4 gives A = 7, B = 4
C3_AddRoundTrip ==
    AddABADone =>
        /\ regA = (hist.startA + hist.startB) % WordLimit
        /\ regB = hist.startB
        /\ (hist.startA = 3 /\ hist.startB = 4) => (regA = 7 /\ regB = 4)

C3_Witness ==
    /\ AddABADone
    /\ hist.startA = 3
    /\ hist.startB = 4
    /\ regA = 7
    /\ regB = 4

\* "load i a", then the literal 0x10, has run its first instruction from reset
LoadImmediateDone ==
    /\ hist.words = flatMapAssemble(ProgramLoadImmediate)
    /\ Len(hist.words) = 2
    /\ AtBoundary
    /\ hist.completed = 1

\* C4 as claimed: after "load i a" and the literal 0x10, run from reset for one
\* instruction, the program counter is 2 and A holds the contents of memory
\* address 0x10
C4_LoadImmediateAsClaimed ==
    LoadImmediateDone =>
        /\ regPC = 2
        /\ regA = RamWord_getValue(data[16])

\* C4 as the code has it: the program counter is 2 and A holds the literal 0x10
\* itself, the contents of memory address 1
C4_LoadImmediate ==
    LoadImmediateDone =>
        /\ regPC = 2
        /\ regA = 16
        /\ regA = RamWord_getValue(data[1])

C4_Witness ==
    /\ LoadImmediateDone
    /\ regA = 16
    /\ data[16] = 0

\* the claim's reading of the jump conditions
JumpTaken(body, f) ==
    CASE body = INS_JMP_JMP -> TRUE
      [] body = INS_JMP_JEZ -> ZeroSet(f)
      [] body = INS_JMP_JGZ -> ~SignSet(f) /\ ~ZeroSet(f)
      [] body = INS_JMP_JLZ -> SignSet(f) /\ ~ZeroSet(f)

\* a named immediate-form jump whose condition is false has just run to the end
UntakenImmediateJumpDone ==
    /\ AtBoundary
    /\ hist.startWord = regIns
    /\ ins_type(regIns) = INS_JMP
    /\ ins_body(regIns) \in {INS_JMP_JEZ, INS_JMP_JGZ, INS_JMP_JLZ}
    /\ ins_bit2(regIns) = 1
    /\ ~JumpTaken(ins_body(regIns), hist.startFlags)

\* C5: a conditional immediate-form jump whose condition is false leaves the
\* program counter at the jump's address + 2; the literal is never loaded into
\* the instruction register and no jump occurs
C5_UntakenJumpSkipsLiteral ==
    UntakenImmediateJumpDone =>
        /\ regPC = (hist.startPC + 2) % WordLimit
        /\ hist.latched = {hist.startPC}
        /\ flags = hist.startFlags

\* "jlz i" with Sign clear, at address 4
C5_Witness ==
    /\ UntakenImmediateJumpDone
    /\ ins_body(regIns) = INS_JMP_JLZ
    /\ ~SignSet(hist.startFlags)
    /\ hist.startPC = 4
    /\ regPC = 6

\* the dispatch cycle has just run on a named jump
JumpDispatched ==
    /\ hist.lastStep = "execute"
    /\ ~thrown
    /\ ins_type(regIns) = INS_JMP
    /\ JMP_named(ins_body(regIns))

\* C6: for every flags value the decoder takes a jump exactly when: JMP always,
\* JEZ when Zero is set, JGZ when neither Sign nor Zero is set, JLZ when Sign is
\* set and Zero is not
C6_JumpCondition ==
    JumpDispatched =>
        (currentInstruction = "execute_jump_step1" <=> JumpTaken(ins_body(regIns), flags))

\* JGZ dispatched with Zero set is not taken
C6_Witness ==
    /\ JumpDispatched
    /\ ins_body(regIns) = INS_JMP_JGZ
    /\ flags = FLGS_Z
    /\ currentInstruction # "execute_jump_step1"

\* ["jmp i", "0x02", "0", "add a b a"] is loaded and two instructions have completed
JmpAddTwoDone ==
    /\ hist.words = flatMapAssemble(ProgramJmpAdd)
    /\ Len(hist.words) = 4
    /\ AtBoundary
    /\ hist.completed = 2

\* C7: after load_program(["jmp i","0x02","0","add a b a"]) and two full
\* instructions (fetch_step1 back to fetch_step1) the program counter is 4, the
\* add has executed exactly once and the literal at address 1 was never loaded
\* into the instruction register
C7_JmpThenAdd ==
    JmpAddTwoDone =>
        /\ regPC = 4
        /\ hist.aluRuns = 1
        /\ regIns = AddABA
        /\ 1 \notin hist.fetched

C7_Witness ==
    /\ JmpAddTwoDone
    /\ regPC = 4
    /\ hist.aluRuns = 1
    /\ hist.fetched = {0, 2, 3}

\* C8: for every memory content and every reachable state update_state()
\* completes without raising a fault and the decoder moves to a next micro-step
C8_NeverFaults == ~thrown

\* C9: from every reachable state, whatever the memory holds, repeated
\* update_state() calls bring the decoder back to fetch_step1
C9_ReturnsToFetch == []<>(currentInstruction = "fetch_step1")

\* C10: on a bus of any width w, after setValue(v) of any integer v, getValue()
\* is v mod 2^w
C10_BusWidth ==
    busArg # <<>> => RamWord_getValue(busNum) = busArg[1] % Pow2(busSize)

\* C11: writing a bus twice with no clean() in between reports contention
\* exactly once, and the second value is the one stored; a write that is the
\* first since construction or since a clean() reports nothing
C11_ContentionReportedOnce ==
    /\ busLog.writes = 1 => busLog.warnings = 0
    /\ busLog.writes = 2 =>
           /\ busLog.warnings = 1
           /\ busDirty
           /\ busArg # <<>> => busNum = busArg[1] % Pow2(busSize)

\* 5 has been written over an earlier value of a 3-bit bus, with no clean() between
C11_Witness ==
    /\ busSize = 3
    /\ busLog.writes = 2
    /\ busLog.warnings = 1
    /\ busArg = <<5>>
    /\ busNum = 5

\* the machine reads as reset() leaves it
ReadsReset ==
    /\ \A n \in Busses : getValue(Machine, n) = 0
    /\ currentInstruction = "fetch_step1"

\* C12: after reset(), whatever state the machine was in, every data and control
\* bus, every register and the flags word reads 0 and the decoder's current
\* micro-step is fetch_step1
C12_ResetZeroes == host.op = "reset" => ReadsReset

\* reset() has been called in the middle of the first instruction, on a loaded
\* instruction register, and has left memory alone
C12_Witness ==
    /\ host.op = "reset"
    /\ hist.lastStep = "execute"
    /\ hist.fetched = {0}
    /\ regIns = 0
    /\ data[0] # 0
    /\ host.changed = {}

\* the last call was loadProgram, and every line of the program assembled
LoadedWhole == host.op = "loadProgram" /\ \A k \in 1..Len(host.words) : host.words[k] # null

\* the last call was loadProgram, and a line of the program did not assemble
LoadedBroken == host.op = "loadProgram" /\ \E k \in 1..Len(host.words) : host.words[k] = null

\* C13: after load_program(lines) in which every line assembles, memory[k] holds
\* the k-th assembled word for every k below the number of words n, every address
\* >= n holds 0, and the machine is in the reset state
C13_LoadInstallsWords ==
    LoadedWhole =>
        /\ \A k \in DOMAIN data :
               data[k] = IF k < Len(host.words) THEN host.words[k + 1] ELSE 0
        /\ ReadsReset
        /\ hist.words = flatMapAssemble(ProgramJmpAdd) =>
               (data[0] = 132 /\ data[1] = 2 /\ data[2] = 0 /\ data[3] = 74)
        /\ hist.words = flatMapAssemble(ProgramLoadImmediate) => (data[0] = 12 /\ data[1] = 16)

\* "load i a", "0x10" has been loaded over a longer program that was running
C13_Witness ==
    /\ LoadedWhole
    /\ host.words = <<12, 16>>
    /\ host.changed = {0, 1, 2, 3}
    /\ data[3] = 0
    /\ \E n \in Busses : dirty[n]

\* C14: if a line passed to load_program fails to assemble, the load fails as a
\* whole: no memory word is changed and no null entry is placed in memory
C14_FailedLoadInstallsNothing ==
    LoadedBroken =>
        /\ host.changed = {}
        /\ \A k \in DOMAIN data : data[k] # null

\* the place of the numeric literal of a line, 0 if it has none
LiteralAt(line) ==
    IF \E k \in 1..Len(line) : line[k].w = "#"
    THEN CHOOSE k \in 1..Len(line) : line[k].w = "#" /\ \A j \in 1..(k - 1) : line[j].w # "#"
    ELSE 0

\* the line with its literal replaced by the placeholder i
Placeholder(line) ==
    IF LiteralAt(line) = 0 THEN line ELSE [line EXCEPT ![LiteralAt(line)] = Word("i")]

\* the type field of the family whose grammar the line matches, -1 if none: a
\* binary op with two operands of a, b, i and a destination of a, b; not with
\* one operand and a destination; a jump with a target of a, b, i; load with an
\* address of a, b, i and a destination; save with a source and an address of a, b
GrammarOf(line) ==
    LET w(k) == line[k].w IN
    CASE Len(line) = 4 /\ w(1) \in {"add", "sub", "and", "ior", "xor"}
              /\ w(2) \in {"a", "b", "i"} /\ w(3) \in {"a", "b", "i"} /\ w(4) \in {"a", "b"} ->
              IF "i" \in {w(2), w(3)} THEN INS_ALU_I ELSE INS_ALU_R
      [] Len(line) = 3 /\ w(1) = "not" /\ w(2) \in {"a", "b", "i"} /\ w(3) \in {"a", "b"} ->
              IF w(2) = "i" THEN INS_ALU_I ELSE INS_ALU_R
      [] Len(line) = 2 /\ w(1) \in {"jmp", "jlz", "jgz", "jez"} /\ w(2) \in {"a", "b", "i"} ->
              INS_JMP
      [] Len(line) = 3 /\ w(1) = "load" /\ w(2) \in {"a", "b", "i"} /\ w(3) \in {"a", "b"} ->
              INS_RAM
      [] Len(line) = 3 /\ w(1) = "save" /\ w(2) \in {"a", "b"} /\ w(3) \in {"a", "b"} ->
              INS_RAM
      [] OTHER -> 0 - 1

\* C15: assembleInstruction returns exactly two words, the instruction word and
\* then the literal word, for a line that contains a numeric literal and matches
\* an instruction grammar, exactly one instruction word for a matching line with
\* no literal, and exactly one data word holding the literal for a line that is
\* only a numeric literal
C15_AssembledWords ==
    asm.done =>
        LET k == LiteralAt(asm.line)
            family == GrammarOf(Placeholder(asm.line))
        IN /\ (k # 0 /\ family >= 0) =>
                  /\ Len(asm.out) = 2
                  /\ asm.out[1] \in 0..(WordLimit - 1)
                  /\ ins_type(asm.out[1]) = family
                  /\ asm.out[2] = parseInt(asm.line[k])
           /\ (k = 0 /\ family >= 0) =>
                  /\ Len(asm.out) = 1
                  /\ asm.out[1] \in 0..(WordLimit - 1)
                  /\ ins_type(asm.out[1]) = family
           /\ (k = 1 /\ Len(asm.line) = 1) => asm.out = <<parseInt(asm.line[1])>>

\* "load 0x10 a" has been assembled into the word of "load i a" and the word 16
C15_Witness ==
    /\ asm.done
    /\ asm.line = <<Word("load"), Hex(<<1, 0>>), Word("a")>>
    /\ asm.out = <<12, 16>>

\* the words of every program of ProgramsAlu
AluWords == [c \in AluLines \X Operands |-> flatMapAssemble(ProgramAlu(c[1], c[2]))]

\* the value of an operand as written: register a, register b or the literal
Written(tok, v) ==
    CASE tok.w = "a" -> v[1]
      [] tok.w = "b" -> v[2]
      [] OTHER -> parseInt(tok)

\* the third instruction of a program of ProgramsAlu has just run to the end
AluLineDone ==
    /\ AtBoundary
    /\ hist.completed = 3
    /\ hist.lastStep = "execute_alu_step8"
    /\ \E c \in DOMAIN AluWords : AluWords[c] = hist.words

\* C16: for every binary op and every line "op x y d", "op i r d", "op r i d",
\* executing the assembled words stores op(first written operand, second written
\* operand) mod 256 in register d, and "not s d" stores NOT of s in d
C16_OperandRouting ==
    AluLineDone =>
        \A c \in DOMAIN AluWords :
            AluWords[c] = hist.words =>
                LET line == c[1]
                    op == ALU_INSTRUCTIONS(line[1].w)
                    first == Written(line[2], c[2])
                    second == IF op = ALU_NOT THEN 0 ELSE Written(line[3], c[2])
                    d == line[Len(line)].w
                IN ExpectedResult(op, first, second, IF d = "a" THEN regA ELSE regB)

\* "sub b 9 a" has run on A = 200, B = 100 and has left 91 in A
C16_Witness ==
    /\ AluLineDone
    /\ hist.words = AluWords[<<<<Word("sub"), Word("b"), Dec(<<9>>), Word("a")>>, <<200, 100>>>>]
    /\ regA = 91
    /\ regB = 100

\* C17: every memory word's numeric value lies in 0 .. 2^WORD_SIZE - 1 in every
\* reachable state: after the assembly of any accepted literal, after
\* load_program, after a cell edit and after any memory write of the simulation
C17_WordsInRange ==
    \A k \in DOMAIN data : data[k] # null => data[k] \in 0..(WordLimit - 1)

\* the cycles of the execute phase of the instruction that has just ended, the
\* dispatch cycle included: the four fetch cycles come first
ExecuteCycles == cycles - hist.startCycle - 4

\* a register-form ALU instruction with a named op has just run to the end
AluRegisterDone ==
    /\ AtBoundary
    /\ hist.lastStep = "execute_alu_step8"
    /\ hist.startWord = regIns
    /\ ins_type(regIns) = INS_ALU_R
    /\ ins_body(regIns) \in ALU_ADD..ALU_NOT

\* C18 as claimed: the execute phase of a register-form ALU instruction takes 4
\* cycles for NOT and 8 for a binary op, from dispatch until the decoder is back
\* at fetch_step1
C18_AluRegisterCyclesAsClaimed ==
    AluRegisterDone => ExecuteCycles = IF ins_body(regIns) = ALU_NOT THEN 4 ELSE 8

\* C18 as the code has it: 4 cycles for NOT and 6 for a binary op (the dispatch
\* cycle, which runs step 1, then steps 2, 3, 4, 7 and 8); "add a b a" is back at
\* fetch_step1 6 cycles after dispatch
C18_AluRegisterCycles ==
    AluRegisterDone =>
        /\ ExecuteCycles = IF ins_body(regIns) = ALU_NOT THEN 4 ELSE 6
        /\ regIns = AddABA => ExecuteCycles = 6

\* "add a b a" has run in 6 cycles, and a "not" in 4
C18_Witness ==
    \/ AddABADone /\ AluRegisterDone /\ ExecuteCycles = 6
    \/ AluRegisterDone /\ ins_body(regIns) = ALU_NOT /\ ExecuteCycles = 4 /\ regPC = 1

\* a named jump has just run to the end
JumpDone ==
    /\ AtBoundary
    /\ hist.startWord = regIns
    /\ ins_type(regIns) = INS_JMP
    /\ JMP_named(ins_body(regIns))

\* C19 as claimed: the execute phase of a JUMP takes between 1 and 4 cycles in
\* every case, from dispatch until the decoder is back at fetch_step1
C19_JumpCyclesAsClaimed == JumpDone => ExecuteCycles \in 1..4

\* C19 as the code has it: 1 cycle for a jump not taken to a register target, 2
\* for one not taken with an immediate target, 3 for a jump taken to a register
\* target and 5 for a jump taken to an immediate target
C19_JumpCycles ==
    JumpDone =>
        LET taken == JumpTaken(ins_body(regIns), hist.startFlags)
            immediate == ins_bit2(regIns) = 1
        IN ExecuteCycles = CASE ~taken /\ ~immediate -> 1
                             [] ~taken /\ immediate -> 2
                             [] taken /\ ~immediate -> 3
                             [] taken /\ immediate -> 5

\* the "jmp i" of ["jmp i", "0x02", "0", "add a b a"] has taken 5 cycles
C19_Witness ==
    /\ JumpDone
    /\ hist.words = flatMapAssemble(ProgramJmpAdd)
    /\ hist.completed = 1
    /\ regPC = 2
    /\ ExecuteCycles = 5

\* the Op field of the word is outside the defined set of its Type
UndefinedOp(w) ==
    CASE ins_type(w) = INS_RAM -> w # 0 /\ ins_body(w) \notin {RAM_READ, RAM_WRITE}
      [] ins_type(w) = INS_JMP -> ~JMP_named(ins_body(w))
      [] OTHER -> ins_body(w) \notin ALU_ADD..ALU_NOT

\* C20: an instruction word whose Op field is outside the defined set for its
\* Type behaves as a no-op: the decoder returns to fetch without a fault, and
\* registers A and B, the flags and every memory word are unchanged by it
C20_UndefinedOpIsNoOp ==
    /\ (UndefinedOp(regIns) /\ hist.lastStep = "execute") => ~thrown
    /\ (UndefinedOp(regIns) /\ AtBoundary /\ hist.startWord = regIns) =>
           /\ regA = hist.startA
           /\ regB = hist.startB
           /\ flags = hist.startFlags
           /\ hist.written = {}

\* C21: when the text of a memory-cell edit fails to assemble (it matches no
\* instruction grammar and is not a bare literal), the memory word at that
\* address and every other memory word keep their previous values
C21_FailedEditKeepsMemory ==
    (host.op = "edit" /\ host.words[1] = null) => host.changed = {}

\* "halt" and "halt 5" have been typed into a cell
C21_Witness ==
    /\ host.op = "edit"
    /\ host.words \in {<<null>>, <<null, 5>>}
    /\ host.idx = 1
    /\ data[1] # null

\* the target of the jump that has just ended: the word after the instruction
\* when X = 1, else the register Y selects, as it was when the jump started
JumpTarget ==
    IF ins_bit2(regIns) = 1 THEN RamWord_getValue(data[(hist.startPC + 1) % WordLimit])
    ELSE IF ins_bit1(regIns) = 0 THEN hist.startA
    ELSE hist.startB

\* C22: when a jump's condition is true, after the instruction completes the
\* program counter equals the target (the memory word following the instruction
\* if X = 1, otherwise register A or B as selected by Y), and A, B, the flags and
\* memory are unchanged
C22_TakenJump ==
    (JumpDone /\ JumpTaken(ins_body(regIns), hist.startFlags)) =>
        /\ regPC = JumpTarget
        /\ regA = hist.startA
        /\ regB = hist.startB
        /\ flags = hist.startFlags
        /\ hist.written = {}

\* a taken jump to register B, which differs from A
C22_Witness ==
    /\ JumpDone
    /\ JumpTaken(ins_body(regIns), hist.startFlags)
    /\ ins_bit2(regIns) = 0
    /\ ins_bit1(regIns) = 1
    /\ regPC = regB
    /\ regB # regA

\* an immediate-form ALU instruction with a named op has just run to the end
AluImmediateDone ==
    /\ AtBoundary
    /\ hist.lastStep = "execute_alu_step8"
    /\ hist.startWord = regIns
    /\ ins_type(regIns) = INS_ALU_I
    /\ ins_body(regIns) \in ALU_ADD..ALU_NOT

\* C23: the execute phase of an immediate-form ALU instruction takes 6 cycles
\* for NOT and 8 for a binary op, and leaves the program counter 2 past the
\* instruction's address: the literal word is an operand, and the only word
\* latched into the instruction register is the instruction's own
C23_AluImmediateCycles ==
    AluImmediateDone =>
        /\ ExecuteCycles = IF ins_body(regIns) = ALU_NOT THEN 6 ELSE 8
        /\ regPC = (hist.startPC + 2) % WordLimit
        /\ hist.latched = {hist.startPC}

\* an immediate-form NOT has run in 6 cycles
C23_Witness ==
    /\ AluImmediateDone
    /\ ins_body(regIns) = ALU_NOT
    /\ ExecuteCycles = 6
    /\ regPC = hist.startPC + 2

\* the register of A and B that bit n of the instruction selects, as it was
\* when the instruction started
SelectedAtStart(n) == IF Bit(regIns, n) = 0 THEN hist.startA ELSE hist.startB

\* a SAVE (Op 010, X = 0 as the instruction table requires) has just run to the end
SaveDone ==
    /\ AtBoundary
    /\ hist.lastStep = "execute_ram_step4"
    /\ hist.startWord = regIns
    /\ ins_type(regIns) = INS_RAM
    /\ ins_body(regIns) = RAM_WRITE
    /\ ins_bit2(regIns) = 0

\* C24: a SAVE takes 4 execute cycles and stores the value of the Z-selected
\* register at memory[value of the Y-selected register], clearing that word's
\* origin text; no other memory word changes and A and B keep their values
C24_Save ==
    SaveDone =>
        /\ ExecuteCycles = 4
        /\ data[SelectedAtStart(1)] = SelectedAtStart(0)
        /\ SelectedAtStart(1) \notin textValue
        /\ hist.written \subseteq {SelectedAtStart(1)}
        /\ regA = hist.startA
        /\ regB = hist.startB

\* "save b a" with A = 6 and B = 9 has replaced the word of "add a b a"
C24_Witness ==
    /\ SaveDone
    /\ hist.words = flatMapAssemble(ProgramSave)
    /\ hist.written = {6}
    /\ data[6] = 9
    /\ 6 \notin textValue
    /\ 4 \in textValue

\* a LOAD with X = 0 has just run to the end
LoadRegisterDone ==
    /\ AtBoundary
    /\ hist.lastStep = "execute_ram_step4"
    /\ hist.startWord = regIns
    /\ ins_type(regIns) = INS_RAM
    /\ ins_body(regIns) = RAM_READ
    /\ ins_bit2(regIns) = 0

\* C25: a LOAD with X = 0 sets the Z-selected register to memory[v], v being the
\* value the Y-selected register held when the instruction started, also when
\* Y and Z select the same register; the other register and memory are unchanged
C25_LoadRegister ==
    LoadRegisterDone =>
        LET word == RamWord_getValue(data[SelectedAtStart(1)]) IN
        /\ ins_bit0(regIns) = 0 => regA = word /\ regB = hist.startB
        /\ ins_bit0(regIns) = 1 => regB = word /\ regA = hist.startA
        /\ hist.written = {}

\* "load a a" with A = 3 and memory[3] = 4 has left A = 4
C25_Witness ==
    /\ LoadRegisterDone
    /\ regIns = assembleInstruction(Line3("load", "a", "a"))[1]
    /\ hist.startA = 3
    /\ data[3] = 4
    /\ regA = 4

\* the last cycle dispatched a zero word
ZeroDispatched == hist.lastStep = "execute" /\ regIns = 0 /\ ~thrown

\* C26: a zero instruction word is a no-op that returns directly to fetch: the
\* dispatch cycle itself performs fetch step 1 of the next instruction, so it
\* comes 4 cycles after the fetch step 1 before it and consecutive zero words
\* advance the program counter by 1 every 4 cycles; A, B, T1, T2, the flags
\* and memory are as they were when the fetch of the zero word began
C26_ZeroWord ==
    ZeroDispatched =>
        /\ currentInstruction = "fetch_step2"
        /\ getValue(Machine, "regAddress") = regPC
        /\ hist.startCycle + 1 = cycles
        /\ hist.startCycle = hist.prev.cycle + 4
        /\ hist.prev.step = "execute" => hist.startPC = (hist.prev.PC + 1) % WordLimit
        /\ regPC = (hist.prev.PC + 1) % WordLimit
        /\ regA = hist.prev.A
        /\ regB = hist.prev.B
        /\ getValue(Machine, "regT1") = hist.prev.T1
        /\ getValue(Machine, "regT2") = hist.prev.T2
        /\ flags = hist.prev.flags
        /\ hist.prev.written = {}
        /\ hist.written = {}

\* a zero word has been dispatched right after another, with A and T1 loaded
C26_Witness ==
    /\ ZeroDispatched
    /\ hist.prev.step = "execute"
    /\ hist.startPC = hist.prev.PC + 1
    /\ regA # 0
    /\ getValue(Machine, "regT1") # 0

\* the value on the data bus in the stand-alone register cycle: register A's
\* when it is enabled, else the register's own when its ENABLE bit is set
RegisterBus ==
    IF regCase.enabled THEN regCase.driven
    ELSE IF Bit(regCase.ctrl, 1) = 1 THEN regCase.value
    ELSE 0

\* C27: in a cycle where a register's control bus has INCREMENT asserted and
\* SET not asserted the register's value increases by exactly 1 modulo 2^w over
\* the whole cycle, though update_set runs twice (255 wraps to 0); when both SET
\* and INCREMENT are asserted the register latches the data-bus value and does
\* not increment
C27_IncrementOnce ==
    regCase.done =>
        /\ (Bit(regCase.ctrl, 2) = 1 /\ Bit(regCase.ctrl, 0) = 0) =>
               regCase.out = (regCase.value + 1) % WordLimit
        /\ (Bit(regCase.ctrl, 2) = 1 /\ Bit(regCase.ctrl, 0) = 1) =>
               regCase.out = RegisterBus

\* the register held 255, INCREMENT alone was asserted, and it holds 0
C27_Witness ==
    /\ regCase.done
    /\ regCase.ctrl = CTRL_INC
    /\ regCase.value = WordLimit - 1
    /\ regCase.out = 0

\* in the last cycle memory, or else the ALU, drove the data bus
RamDrives == getValue(Machine, "ctrlRam") = CTRL_ENB
AluDrives == getValue(Machine, "ctrlALU") # 0

\* the value memory or the ALU drove in the last cycle
DrivenValue ==
    IF RamDrives THEN RamWord_getValue(data[getValue(Machine, "regAddress")])
    ELSE ALU_res(getValue(Machine, "ctrlALU"), getValue(Machine, "regT1"),
                 getValue(Machine, "regT2"))

\* C28: in any cycle where a register has SET asserted and the ALU or memory
\* drives the data bus, the register ends the cycle holding the value driven,
\* not the 0 the data bus was forced to and not its previous value, also when the
\* destination register was a source operand of the ALU instruction
C28_SetLatchesDriven ==
    (~thrown /\ (RamDrives \/ AluDrives)) =>
        \A r \in RegisterNames :
            Bit(getValue(Machine, ControlOf(r)), 0) = 1 => getValue(Machine, r) = DrivenValue

\* the compute cycle of "add a b a" with A = 3 and B = 4 has left 7 in A
C28_Witness ==
    /\ hist.lastStep = "execute_alu_step7"
    /\ regIns = AddABA
    /\ AluDrives
    /\ getValue(Machine, "ctrlA") = CTRL_SET
    /\ hist.startA = 3
    /\ regA = 7

\* C29: reset() on a bus clears both its value and its dirty bit, so a single
\* write right after reset(), with no clean() in between, reports no
\* contention, even if the bus had been written earlier in the same cycle
C29_ResetClearsDirty ==
    /\ busLog.sinceReset = 0 => busNum = 0 /\ ~busDirty
    /\ busLog.sinceReset = 1 => busLog.resetWarnings = 0

\* C30: for every memory content and every reachable state, no bus is written
\* twice within one cycle: the decoder writes each control bus at most once per
\* micro-step and at most one of an enabled register, the ALU and memory drives
\* the data bus, so no update_state() call reports contention
C30_NoContention == ~warned

\* memory has driven the data bus in the transfer cycle of a LOAD, the third
\* instruction of the program, and nothing was reported
C30_Witness ==
    /\ hist.lastStep = "execute_ram_step3"
    /\ hist.completed = 2
    /\ RamDrives
    /\ dirty["dataBus"]
    /\ dirty["ctrlRam"]
    /\ ~warned

\* C31: whenever the decoder's current micro-step is fetch step 1, every control
\* bus (PC, address, instruction, A, B, T1, T2, ALU, RAM) holds 0: no control
\* line asserted by one instruction is still asserted at the next instruction
\* boundary, for every instruction word including undefined Op values
C31_ControlsClearAtFetch ==
    currentInstruction = "fetch_step1" =>
        \A c \in ControlNames : getValue(Machine, c) = 0

\* a RAM word with an undefined Op has run to the end, the third instruction
C31_Witness ==
    /\ AtBoundary
    /\ hist.startWord = regIns
    /\ hist.completed = 3
    /\ ins_type(regIns) = INS_RAM
    /\ UndefinedOp(regIns)
    /\ hist.lastStep = "execute_ram_step4"

\* C32: the flags word changes only in a cycle in which the ALU control bus is
\* non-zero, the compute step of an ALU instruction (or on reset(), which the
\* host of this specification never calls): fetch steps, RAM, JUMP and no-op
\* instructions leave the flags unchanged, so a conditional jump tests the flags
\* the last ALU compute step produced
C32_FlagsFrame ==
    [][flags' # flags =>
          /\ getValue(Machine, "ctrlALU")' # 0
          /\ hist'.lastStep = "execute_alu_step7"]_vars

\* the one compute step so far has set a flag, and a jump that ran after it has
\* ended with the flags that step left
C32_Witness ==
    /\ JumpDone
    /\ hist.aluRuns = 1
    /\ flags # 0
    /\ flags = hist.startFlags

\* C33: in every reachable state the flags word is one of 0b00, 0b01 (Sign) or
\* 0b10 (Zero): Zero and Sign are never both set
C33_FlagsExclusive ==
    /\ flags \in {0, FLGS_S, FLGS_Z}
    /\ ~(ZeroSet(flags) /\ SignSet(flags))

\* "add a b a" with A = B = 128 has left 0 in A with Zero set and Sign clear
C33_Witness ==
    /\ AddABADone
    /\ hist.startA = 128
    /\ hist.startB = 128
    /\ regA = 0
    /\ flags = FLGS_Z

\* the word "save a b": the value of A is stored at the address held in B
SaveAB == assembleInstruction(Line3("save", "a", "b"))[1]

\* C34: the instruction register changes only in fetch step 3 (Spec has no
\* reset() call): throughout dispatch and every execute micro-step of an
\* instruction it holds the word fetched for that instruction, so every
\* micro-step decodes the same Type/Op/X/Y/Z fields even if the instruction
\* overwrites its own memory word
C34_InstructionFrame ==
    /\ [][regIns' # regIns => hist'.lastStep = "fetch_step3"]_vars
    /\ [](currentInstruction \notin {"fetch_step2", "fetch_step3"} =>
              regIns = hist.startWord)

\* "save a b" at address 4, with A = 3 and B = 4, has replaced its own memory
\* word by 3 and ended as the SAVE that was fetched
C34_Witness ==
    /\ SaveDone
    /\ regIns = SaveAB
    /\ hist.startPC = 4
    /\ hist.written = {4}
    /\ data[4] = 3
    /\ hist.latched = {4}

\* C35: during simulation a memory word changes only in a cycle in which the
\* RAM control bus equals SET (step 3 of a RAM instruction whose Op is not
\* LOAD), and then only the single word addressed by the address register
\* changes; fetches, LOADs, ALU instructions, jumps and no-ops never modify
\* memory
C35_MemoryFrame ==
    [][data' # data =>
          /\ getValue(Machine, "ctrlRam")' = CTRL_SET
          /\ hist'.lastStep = "execute_ram_step3"
          /\ ins_type(regIns) = INS_RAM
          /\ ins_body(regIns) # INS_B_RAM_READ
          /\ Changed(data, data') = {getValue(Machine, "regAddress")}
          /\ getValue(Machine, "regAddress")' = getValue(Machine, "regAddress")]_vars

\* step 3 of a RAM word whose Op is neither LOAD nor SAVE has stored a register
\* in the word the address register points at, and in no other
C35_Witness ==
    /\ hist.lastStep = "execute_ram_step3"
    /\ getValue(Machine, "ctrlRam") = CTRL_SET
    /\ ins_type(regIns) = INS_RAM
    /\ UndefinedOp(regIns)
    /\ hist.written = {getValue(Machine, "regAddress")}
    /\ hist.startCycle + 7 = cycles

\* the calls whose run mode is driving the clock: in a cycle, or between two
Driving == {p \in 1..MaxPresses : calls[p].pc \in {"update", "sleep"}}

\* C36: at most one run mode (step / instruction / loop) drives the simulation
\* at any time: for every interleaving of onButtonPress invocations a new mode
\* starts only when the run state is null, so two drivers never call the
\* per-cycle operation concurrently and a cycle is never interleaved with
\* another cycle
C36_OneDriver ==
    /\ Cardinality(Driving) <= 1
    /\ \A p \in 1..MaxPresses : calls[p].started \in {"none", "null"}
    /\ \A p \in Driving : _state = calls[p].button

\* "loop" was pressed while an instruction ran: the call waited, then started
\* its mode with the run state null, and is in a cycle
C36_Witness ==
    /\ calls[1].button = "instruction"
    /\ calls[1].pc = "done"
    /\ calls[2].button = "loop"
    /\ calls[2].currentState = "instruction"
    /\ calls[2].started = "null"
    /\ calls[2].pc = "update"
    /\ _state = "loop"

\* C37: every onButtonPress invocation eventually gets past its wait: once
\* stop() has been requested while a run mode is active, the run state
\* eventually becomes null without any further user input, for every
\* interleaving of button presses and every memory content
C37_WaitsEnd ==
    /\ \A p \in 1..MaxPresses : (calls[p].pc = "wait") ~> (calls[p].pc # "wait")
    /\ (_stop /\ _state # "null") ~> (_state = "null")

\* C38: memory always consists of exactly 2^WORD_SIZE = 256 words addressed
\* 0..255: no sequence of loadProgram calls (including programs longer than 256
\* words) and memory-cell edits (including a two-word instruction + literal
\* edit at the last addresses) writes outside 0..255 or changes the number of
\* words
C38_MemorySize ==
    /\ DOMAIN data = 0..(WordLimit - 1)
    /\ Cardinality(DOMAIN data) = Pow2(WORD_SIZE)
    /\ host.changed \subseteq 0..(WordLimit - 1)

\* the program of 257 lines is loaded, its 256th word at address 255, and
\* "load 0x10 a" has been typed into the last cell
C38_Witness ==
    /\ Len(hist.words) = WordLimit + 1
    /\ host.op = "edit"
    /\ host.idx = WordLimit - 1
    /\ Len(host.words) = 2
    /\ host.words[1] # null
    /\ data[WordLimit - 1] = hist.words[WordLimit]

\* the control buses built with CTRL_SIZE_SET, and those with CTRL_SIZE_SET_ENB
SetOnly == {"ctrlIns", "ctrlAddress", "ctrlT1", "ctrlT2"}
SetEnable == {"ctrlA", "ctrlB", "ctrlRam"}

\* C39: every value the decoder writes to a control bus fits that bus's width,
\* so no control signal is ever silently truncated: the SET-only buses
\* (instruction, address, T1, T2; 1 bit) only ever receive 0 or SET, the A/B
\* and RAM buses (2 bits) only 0, SET or ENABLE, and only the program-counter
\* bus (3 bits) receives INCREMENT
C39_ControlsFit ==
    /\ truncated \cap ControlNames = {}
    /\ \A c \in SetOnly : SizeOf(c) = 1 /\ numValue[c] \in {0, CTRL_SET}
    /\ \A c \in SetEnable : SizeOf(c) = 2 /\ numValue[c] \in {0, CTRL_SET, CTRL_ENB}
    /\ SizeOf("ctrlPC") = 3 /\ numValue["ctrlPC"] \in {0, CTRL_SET, CTRL_ENB, CTRL_INC}
    /\ \A c \in ControlNames \ {"ctrlPC", "ctrlALU"} : Bit(numValue[c], 2) = 0

\* the program counter's control bus holds INCREMENT, written whole by step 2
\* of a RAM instruction with a literal, the first of the program
C39_Witness ==
    /\ hist.lastStep = "execute_ram_step2"
    /\ hist.completed = 0
    /\ numValue["ctrlPC"] = CTRL_INC
    /\ dirty["ctrlPC"]
    /\ truncated = {}

====
